---- MODULE Spec2Model ----
(***************************************************************************)
(* Model of the terminal session bridge of rdock (src/server.py):          *)
(* WebTerminal (spawn, spawn_command, resize, write, read, close,          *)
(* kill_session), terminal_handler with its read_loop, and                 *)
(* kill_session_handler, together with the parts of the environment they   *)
(* act on: the forked children, the pseudo-terminals, the server's         *)
(* descriptor table and the tmux server.                                   *)
(***************************************************************************)
EXTENDS Integers, Sequences, FiniteSets, TLC

\* ------------------------------------------------------------------ bounds
MaxSpawns == 2     \* connections accepted in one behaviour
MaxMsgs   == 2     \* frames handled by the server, all connections together
MaxKills  == 1     \* /kill-session requests in one behaviour
MaxStats  == 1     \* output chunks one monitor command produces
MaxTabs   == 3     \* tabs one page creates in one behaviour

Conns == {1, 2}                \* connections open at the same time
Names == {"a", "b"}            \* values of the ?session= query parameter
None  == "None"                \* Python's None
Fds   == Conns                 \* descriptor numbers pty.fork can return; 0 stands for None

VARIABLES
    tmuxAvail,        \* shutil.which('tmux') is not None
    sessions,         \* the tmux server: name -> [live, scroll]
    fds,              \* the server's descriptor table: fd -> owning connection, 0 = closed
    pc,               \* position of terminal_handler per connection
    is_gpustat,       \* terminal_handler.is_gpustat
    terminal,         \* the WebTerminal object: [master_fd, pid, session_name]
    read_task,        \* state of the read_loop task
    sawEOF,           \* an os.read of read_loop found the pty at end of file
    chan,             \* the websocket: "open", "closing" (peer sent close), "closed"
    msg,              \* the frame the handler took last from the websocket
    effects,          \* what the handler applied to the pty, in order
    winsize,          \* window size of the pty
    child,            \* the forked child: [st, saw]
    ptyOut,           \* output of the child not yet read from the master
    wsOut,            \* frames sent to the client, in order
    closeCalls,       \* os.close calls issued by WebTerminal.close on this object
    killCalls,        \* os.kill calls issued by WebTerminal.close on this object
    raised,           \* exception that left terminal_handler / WebTerminal.close
    spawned,          \* connections accepted
    nmsgs,            \* frames handled
    nkills,           \* /kill-session requests served
    lastKill,         \* the last /kill-session: name, response status, tmux exit code
    nstats,           \* chunks produced by each monitor command
    inbox,            \* frames the websocket has received and the handler not yet taken
    delivered,        \* every frame the websocket has received, in order
    deaf,             \* the program under the pty ignores SIGHUP and SIGTERM
    query,            \* request.query of the connection: [gpustat, session]
    htpasswd,         \* the file HTPASSWD_FILE as the server finds it
    SESSIONS,         \* the in-memory session store: token -> username, None = no entry
    state_file,       \* the contents of STATE_FILE
    lastReq,          \* the last HTTP request and what the server did with it
    tabs,             \* the page: tabs, as number of the tab id -> [type, sessionName]
    activeTabId,      \* the page: activeTabId, as the number of the tab id, NoTabId = null
    tabCounter,       \* the page: tabCounter
    sockets,          \* the page: readyState of the WebSocket each tab id opened
    fetches,          \* the page: session names for which /kill-session was fetched
    phase             \* the page: "loading" until init has run, then "ready"

vars == <<tmuxAvail, sessions, fds, pc, is_gpustat,
          terminal, read_task, sawEOF, chan, msg, effects, winsize, child,
          ptyOut, wsOut, closeCalls, killCalls, raised, spawned, nmsgs, nkills,
          lastKill, nstats, inbox, delivered, deaf, query,
          htpasswd, SESSIONS, state_file, lastReq,
          tabs, activeTabId, tabCounter, sockets, fetches, phase>>

\* The page served by index_handler.
pageVars == <<tabs, activeTabId, tabCounter, sockets, fetches, phase>>

\* What the HTTP layer keeps besides the terminal bridge.
webVars == <<htpasswd, SESSIONS, state_file, lastReq, pageVars>>

\* ------------------------------------------------------------ data values
\* A chunk of terminal output names the text it carries: the marks typed by
\* clients that appear in it, and the program that produced it.
Chunk(kind, marks) == [kind |-> kind, marks |-> marks]

NoSession == [live |-> FALSE, scroll |-> {}]

NoChild == [st |-> "none", saw |-> FALSE]

\* States in which the child still holds the slave side of the pty open.
\* "escaped" is the child in which os.execvpe raised: the exception leaves
\* spawn, and the child goes on as a copy of the server.
AliveStates == {"forked", "checked", "shell", "attached", "cmd", "escaped"}

\* WebTerminal.__init__
NewTerminal == [master_fd |-> 0, pid |-> 0, session_name |-> None]

FirstFd == CHOOSE f \in Fds : \A g \in Fds : f <= g

\* pty.fork returns the lowest descriptor number that is not open.
LowestFreeFd == CHOOSE f \in Fds : fds[f] = 0 /\ \A g \in Fds : g < f => fds[g] # 0

NoFrame == [wstype |-> "none", brace |-> FALSE, valid |-> FALSE, type |-> "",
            data |-> "", rows |-> 0, cols |-> 0, text |-> ""]

\* request.query of GET /terminal: ?gpustat=1 or not, and the value of
\* ?session=, None when the parameter is absent.
Query(gp, name) == [gpustat |-> gp, session |-> name]
NoQuery == Query(FALSE, None)

\* Line 193: os.waitpid(pid, 0) returns only when the child has exited, and
\* close is called on the event loop: while a handler waits there, no other
\* coroutine of the server runs.
Blocked == \E c \in Conns : pc[c] = "waitpid"

\* Session ids create_session can draw, and the cookie a request can carry.
Tokens == {"t1", "t2"}

\* HTPASSWD_FILE: not there; there without a non-blank line; there with a
\* user; there with a user but open() raises (no read permission).
HtpasswdStates == {"absent", "empty", "users", "unreadable"}

\* Values of the stored UI state: load_server_state's default, or a blob a
\* client has posted.
Blobs == {"blob1", "blob2"}

\* A request as the server saw it: the cookie it carried, what the server
\* did with it (outcome), the session id a login set, and a bit that tells
\* one request from the next.
Req(path, method, cookie, outcome, issued, tick) ==
    [path |-> path, method |-> method, cookie |-> cookie, outcome |-> outcome,
     issued |-> issued, tick |-> tick]
NoRequest == Req(None, None, None, None, None, 0)

\* Numbers of tab ids (`term-3`, `vscode-3`, `gpustat-3` have number 3).
TabNumbers == 1..MaxTabs

\* A tab of the page, and no entry in the Map.
Tab(type, sessionName) == [type |-> type, sessionName |-> sessionName]
NoTab == Tab(None, None)
\* activeTabId = null (line 674): no tab number.
NoTabId == 0

\* ------------------------------------------------------------------- Init
Init ==
    /\ tmuxAvail \in BOOLEAN
    /\ sessions = [n \in Names |-> NoSession]
    /\ fds = [f \in Fds |-> 0]
    /\ pc = [c \in Conns |-> "idle"]
    /\ is_gpustat = [c \in Conns |-> FALSE]
    /\ terminal = [c \in Conns |-> NewTerminal]
    /\ read_task = [c \in Conns |-> "none"]
    /\ sawEOF = [c \in Conns |-> FALSE]
    /\ chan = [c \in Conns |-> "none"]
    /\ msg = [c \in Conns |-> NoFrame]
    /\ effects = [c \in Conns |-> <<>>]
    /\ winsize = [c \in Conns |-> <<0, 0>>]
    /\ child = [c \in Conns |-> NoChild]
    /\ ptyOut = [c \in Conns |-> <<>>]
    /\ wsOut = [c \in Conns |-> <<>>]
    /\ closeCalls = [c \in Conns |-> 0]
    /\ killCalls = [c \in Conns |-> 0]
    /\ raised = [c \in Conns |-> "none"]
    /\ spawned = 0
    /\ nmsgs = 0
    /\ nkills = 0
    /\ lastKill = [session |-> None, status |-> "none", rc |-> "none"]
    /\ nstats = [c \in Conns |-> 0]
    /\ inbox = [c \in Conns |-> <<>>]
    /\ delivered = [c \in Conns |-> <<>>]
    /\ deaf = [c \in Conns |-> FALSE]
    /\ query = [c \in Conns |-> NoQuery]
    /\ htpasswd = "absent"
    /\ SESSIONS = [t \in Tokens |-> None]
    /\ state_file = "default"
    /\ lastReq = NoRequest
    /\ tabs = [n \in TabNumbers |-> NoTab]
    /\ activeTabId = NoTabId
    /\ tabCounter = 0
    /\ sockets = [n \in TabNumbers |-> "none"]
    /\ fetches = {}
    /\ phase = "loading"

spawn_drops_name(c, session_name) ==
    /\ terminal' = [terminal EXCEPT ![c] =
           [master_fd |-> LowestFreeFd, pid |-> c, session_name |-> None]]
    /\ fds' = [fds EXCEPT ![LowestFreeFd] = c]
    /\ child' = [child EXCEPT ![c] = [st |-> "forked", saw |-> FALSE]]

\* ------------------------------------------------- WebTerminal.spawn (parent)
\* Lines 110-113 and 139-142: the parent records the name, forks and keeps
\* the master descriptor; the child starts in the Python code of spawn.
spawn(c, session_name) ==
    /\ terminal' = [terminal EXCEPT ![c] =
           [master_fd |-> LowestFreeFd, pid |-> c, session_name |-> session_name]]
    /\ fds' = [fds EXCEPT ![LowestFreeFd] = c]
    /\ child' = [child EXCEPT ![c] = [st |-> "forked", saw |-> FALSE]]

\* Lines 144-147 and 161-164: as spawn, but the name is left unset.
spawn_command(c) ==
    /\ terminal' = [terminal EXCEPT ![c] =
           [master_fd |-> LowestFreeFd, pid |-> c, session_name |-> None]]
    /\ fds' = [fds EXCEPT ![LowestFreeFd] = c]
    /\ child' = [child EXCEPT ![c] = [st |-> "forked", saw |-> FALSE]]

ConnectHonoursName(c, gp, name) ==
    /\ ~Blocked
    /\ pc[c] = "idle"
    /\ \A x \in Conns : x < c => pc[x] # "idle"
    /\ spawned < MaxSpawns
    /\ spawned' = spawned + 1
    /\ query' = [query EXCEPT ![c] = Query(gp, name)]
    /\ is_gpustat' = [is_gpustat EXCEPT ![c] = gp]
    /\ IF gp /\ name = None THEN spawn_command(c) ELSE spawn(c, name)
    /\ pc' = [pc EXCEPT ![c] = "running"]
    /\ chan' = [chan EXCEPT ![c] = "open"]
    /\ read_task' = [read_task EXCEPT ![c] = "running"]
    /\ UNCHANGED <<webVars, tmuxAvail, inbox, delivered, deaf, sessions, sawEOF, msg, effects, winsize,
                   ptyOut, wsOut, closeCalls, killCalls, raised, nmsgs, nkills, lastKill,
                   nstats>>

\* terminal_handler up to its first wait for a frame (lines 204-233), for a
\* request with ?gpustat=1 (gp) or with ?session=name.
terminal_handler(c, gp, name) ==
    /\ ~Blocked
    /\ pc[c] = "idle"
    /\ \A x \in Conns : x < c => pc[x] # "idle"
    /\ spawned < MaxSpawns
    /\ spawned' = spawned + 1
    /\ query' = [query EXCEPT ![c] = Query(gp, name)]
    /\ is_gpustat' = [is_gpustat EXCEPT ![c] = gp]
    /\ IF gp THEN spawn_command(c) ELSE spawn(c, name)
    /\ pc' = [pc EXCEPT ![c] = "running"]
    /\ chan' = [chan EXCEPT ![c] = "open"]
    /\ read_task' = [read_task EXCEPT ![c] = "running"]
    /\ UNCHANGED <<tmuxAvail, inbox, delivered, deaf, sessions, sawEOF, msg, effects, winsize,
                   ptyOut, wsOut, closeCalls, killCalls, raised, nmsgs, nkills, lastKill,
                   nstats>>

\* A websocket request for /terminal that reaches terminal_handler.
Connect(c, gp, name) ==
    /\ terminal_handler(c, gp, name)
    /\ UNCHANGED webVars

\* terminal_handler when pty.fork raises OSError (line 113 or 146: no pty or
\* no process left).  The call is outside the try of the handler: the
\* exception leaves the handler before the read task exists, nothing is sent
\* on the websocket, and the server drops the connection.
SpawnFails(c, gp, name) ==
    /\ ~Blocked
    /\ pc[c] = "idle"
    /\ \A x \in Conns : x < c => pc[x] # "idle"
    /\ spawned < MaxSpawns
    /\ spawned' = spawned + 1
    /\ query' = [query EXCEPT ![c] = Query(gp, name)]
    /\ is_gpustat' = [is_gpustat EXCEPT ![c] = gp]
    /\ terminal' = [terminal EXCEPT ![c] =
           [NewTerminal EXCEPT !.session_name = IF gp THEN None ELSE name]]
    /\ pc' = [pc EXCEPT ![c] = "done"]
    /\ chan' = [chan EXCEPT ![c] = "closed"]
    /\ raised' = [raised EXCEPT ![c] = "OSError"]
    /\ UNCHANGED <<webVars, tmuxAvail, inbox, delivered, deaf, sessions, fds, read_task,
                   sawEOF, msg, effects, winsize, child, ptyOut, wsOut, closeCalls,
                   killCalls, nmsgs, nkills, lastKill, nstats>>

\* The handler has returned and its child is reaped: the objects of the
\* connection are discarded, and another connection can be accepted.
Discard(c) ==
    /\ ~Blocked
    /\ pc[c] = "done"
    /\ child[c].st = "reaped"
    /\ pc' = [pc EXCEPT ![c] = "idle"]
    /\ is_gpustat' = [is_gpustat EXCEPT ![c] = FALSE]
    /\ terminal' = [terminal EXCEPT ![c] = NewTerminal]
    /\ read_task' = [read_task EXCEPT ![c] = "none"]
    /\ sawEOF' = [sawEOF EXCEPT ![c] = FALSE]
    /\ chan' = [chan EXCEPT ![c] = "none"]
    /\ msg' = [msg EXCEPT ![c] = NoFrame]
    /\ effects' = [effects EXCEPT ![c] = <<>>]
    /\ winsize' = [winsize EXCEPT ![c] = <<0, 0>>]
    /\ child' = [child EXCEPT ![c] = NoChild]
    /\ ptyOut' = [ptyOut EXCEPT ![c] = <<>>]
    /\ wsOut' = [wsOut EXCEPT ![c] = <<>>]
    /\ closeCalls' = [closeCalls EXCEPT ![c] = 0]
    /\ killCalls' = [killCalls EXCEPT ![c] = 0]
    /\ raised' = [raised EXCEPT ![c] = "none"]
    /\ nstats' = [nstats EXCEPT ![c] = 0]
    /\ inbox' = [inbox EXCEPT ![c] = <<>>]
    /\ delivered' = [delivered EXCEPT ![c] = <<>>]
    /\ deaf' = [deaf EXCEPT ![c] = FALSE]
    /\ query' = [query EXCEPT ![c] = NoQuery]
    /\ UNCHANGED <<webVars, tmuxAvail, sessions, fds, spawned, nmsgs, nkills, lastKill>>

\* ------------------------------------------------- the child after the fork
UsesTmuxWithName(session_name) == session_name # None

\* Line 123: persistence is used only with a name and with tmux installed.
UsesTmux(session_name) == session_name # None /\ tmuxAvail

TmuxCommandAlwaysNew(saw) == "new-session"

\* Lines 130-135: the command the child executes after `tmux has-session`.
TmuxCommand(saw) == IF saw THEN "attach-session" ELSE "new-session"

Push(c, chunk) == [ptyOut EXCEPT ![c] = Append(@, chunk)]

\* Lines 115-129 and 136-138: the child of spawn runs has-session, or
\* executes the plain shell when no persistence applies.
ChildCheck(c) ==
    /\ child[c].st = "forked"
    /\ ~is_gpustat[c]
    /\ LET n == terminal[c].session_name IN
         IF UsesTmux(n)
         THEN child' = [child EXCEPT ![c] = [st |-> "checked", saw |-> sessions[n].live]]
         ELSE child' = [child EXCEPT ![c] = [st |-> "shell", saw |-> FALSE]]
    /\ UNCHANGED <<webVars, tmuxAvail, query, inbox, delivered, deaf, sessions, fds, pc, is_gpustat, terminal,
                   read_task, sawEOF, chan, msg, effects, winsize, ptyOut,
                   wsOut, closeCalls, killCalls, raised, spawned, nmsgs, nkills, lastKill, nstats>>

\* Lines 130-135: the child executes tmux. attach-session fails when the
\* session is gone, new-session fails when the name is taken; either way
\* tmux prints an error and the child exits.
ChildExec(c) ==
    /\ child[c].st = "checked"
    /\ LET n   == terminal[c].session_name
           cmd == TmuxCommand(child[c].saw)
       IN
         IF cmd = "attach-session" /\ sessions[n].live
         THEN /\ child' = [child EXCEPT ![c] = [@ EXCEPT !.st = "attached"]]
              /\ ptyOut' = Push(c, Chunk("replay", sessions[n].scroll))
              /\ UNCHANGED sessions
         ELSE IF cmd = "new-session" /\ ~sessions[n].live
         THEN /\ child' = [child EXCEPT ![c] = [@ EXCEPT !.st = "attached"]]
              /\ sessions' = [sessions EXCEPT ![n] = [live |-> TRUE, scroll |-> {}]]
              /\ ptyOut' = Push(c, Chunk("replay", {}))
         ELSE /\ child' = [child EXCEPT ![c] = [@ EXCEPT !.st = "exited"]]
              /\ ptyOut' = Push(c, Chunk("tmuxerr", {}))
              /\ UNCHANGED sessions
    /\ UNCHANGED <<webVars, tmuxAvail, query, inbox, delivered, deaf, fds, pc, is_gpustat, terminal, read_task, sawEOF,
                   chan, msg, effects, winsize, wsOut, closeCalls, killCalls,
                   raised, spawned, nmsgs, nkills, lastKill, nstats>>

\* Lines 148-160: the child of spawn_command looks the command up (found =
\* shutil.which('gpustat') is not None) and executes it, or prints the
\* diagnostic and exits with status 1.
ChildCommand(c, found) ==
    /\ child[c].st = "forked"
    /\ is_gpustat[c]
    /\ IF found
       THEN /\ child' = [child EXCEPT ![c] = [@ EXCEPT !.st = "cmd", !.saw = TRUE]]
            /\ UNCHANGED ptyOut
       ELSE /\ child' = [child EXCEPT ![c] = [@ EXCEPT !.st = "exited"]]
            /\ ptyOut' = Push(c, Chunk("diag", {}))
    /\ UNCHANGED <<webVars, tmuxAvail, query, inbox, delivered, deaf, sessions, fds, pc, is_gpustat, terminal,
                   read_task, sawEOF, chan, msg, effects, winsize, wsOut,
                   closeCalls, killCalls, raised, spawned, nmsgs, nkills, lastKill, nstats>>

\* The monitor command prints a chunk of statistics.
CmdOutput(c) ==
    /\ child[c].st = "cmd"
    /\ nstats[c] < MaxStats
    /\ nstats' = [nstats EXCEPT ![c] = @ + 1]
    /\ ptyOut' = Push(c, Chunk("stats", {}))
    /\ UNCHANGED <<webVars, tmuxAvail, query, inbox, delivered, deaf, sessions, fds, pc, is_gpustat, terminal,
                   read_task, sawEOF, chan, msg, effects, winsize, child,
                   wsOut, closeCalls, killCalls, raised, spawned, nmsgs,
                   nkills, lastKill>>

\* Children attached to tmux session n.
AttachedTo(n) == {c \in Conns : child[c].st = "attached" /\ terminal[c].session_name = n}

\* The tmux server ends session n: every attached client prints a notice
\* and exits.
EndSession(n) ==
    /\ sessions' = [sessions EXCEPT ![n] = NoSession]
    /\ child' = [c \in Conns |-> IF c \in AttachedTo(n)
                                 THEN [child[c] EXCEPT !.st = "exited"] ELSE child[c]]
    /\ ptyOut' = [c \in Conns |-> IF c \in AttachedTo(n)
                                  THEN Append(ptyOut[c], Chunk("tmuxexit", {})) ELSE ptyOut[c]]

\* The program under the pty ends by itself: the shell or the command exits,
\* the tmux client is detached from inside, or (ends) the shell inside the
\* tmux session exits and the session ends with it.
ChildExit(c, ends) ==
    /\ child[c].st \in {"shell", "attached", "cmd"}
    /\ IF child[c].st = "attached" /\ ends
       THEN EndSession(terminal[c].session_name)
       ELSE /\ ~ends
            /\ child' = [child EXCEPT ![c] = [@ EXCEPT !.st = "exited"]]
            /\ UNCHANGED <<sessions, ptyOut>>
    /\ UNCHANGED <<webVars, tmuxAvail, query, inbox, delivered, deaf, fds, pc, is_gpustat, terminal, read_task,
                   sawEOF, chan, msg, effects, winsize, wsOut, closeCalls,
                   killCalls, raised, spawned, nmsgs, nkills, lastKill, nstats>>

\* os.execvpe raises in the child (lines 132, 135, 138, 157): the target
\* is missing or cannot be executed, e.g. no /bin/bash on the host.  spawn
\* and spawn_command catch nothing and do not call os._exit here.
ChildExecFails(c) ==
    /\ \/ child[c].st = "checked"
       \/ child[c].st = "forked" /\ (is_gpustat[c] \/ ~UsesTmux(terminal[c].session_name))
    /\ child' = [child EXCEPT ![c] = [@ EXCEPT !.st = "escaped"]]
    /\ UNCHANGED <<webVars, tmuxAvail, query, inbox, delivered, deaf, sessions, fds, pc,
                   is_gpustat, terminal, read_task, sawEOF, chan, msg, effects,
                   winsize, ptyOut, wsOut, closeCalls, killCalls, raised, spawned,
                   nmsgs, nkills, lastKill, nstats>>

\* The user of a plain shell replaces it (exec) with a program that ignores
\* SIGHUP and SIGTERM, the two signals close (lines 188-192) makes the pid
\* receive.
ChildIgnoresSignals(c) ==
    /\ child[c].st = "shell"
    /\ ~deaf[c]
    /\ deaf' = [deaf EXCEPT ![c] = TRUE]
    /\ UNCHANGED <<webVars, tmuxAvail, query, inbox, delivered, sessions, fds, pc, is_gpustat,
                   terminal, read_task, sawEOF, chan, msg, effects, winsize,
                   child, ptyOut, wsOut, closeCalls, killCalls, raised, spawned,
                   nmsgs, nkills, lastKill, nstats>>

\* ------------------------------------------------------- frames and decoding
\* A websocket frame as the handler sees it: its type, whether its text
\* starts with '{', whether that text is valid JSON, and the fields of the
\* JSON object.  text names the literal text of the frame.
Frame(wstype, brace, valid, type, data, rows, cols, text) ==
    [wstype |-> wstype, brace |-> brace, valid |-> valid, type |-> type,
     data |-> data, rows |-> rows, cols |-> cols, text |-> text]

\* The client of a connection marks the text it types with the session name
\* it asked for; JsonText is the literal text of an envelope it sends.
Mark(c)     == terminal[c].session_name
JsonText(c) == CASE terminal[c].session_name = "a" -> "{a}"
                 [] terminal[c].session_name = "b" -> "{b}"
                 [] OTHER -> "{None}"

\* Line 169: struct.pack('HHHH', ...) accepts unsigned 16-bit values only.
UShortMax == 65535
PacksAsH(v) == 0 <= v /\ v <= UShortMax

\* rows and cols of the resize envelopes the clients send: a valid size, a
\* zero row count, a zero column count, a row count beyond 16 bits.
ResizeSizes == {<<30, 100>>, <<0, 100>>, <<30, 0>>, <<UShortMax + 1, 100>>}

InputFrame(c)         == Frame("TEXT", TRUE, TRUE, "input", Mark(c), 0, 0, JsonText(c))
RawFrame(c)           == Frame("TEXT", FALSE, FALSE, "", "", 0, 0, Mark(c))
OtherFrame(c)         == Frame("TEXT", TRUE, TRUE, "other", "", 0, 0, JsonText(c))
BadJsonFrame(c)       == Frame("TEXT", TRUE, FALSE, "", "", 0, 0, JsonText(c))
BinaryFrame(c)        == Frame("BINARY", FALSE, FALSE, "", "", 0, 0, Mark(c))
ResizeFrame(c, r, k)  == Frame("TEXT", TRUE, TRUE, "resize", "", r, k, JsonText(c))

FramesOf(c) == {InputFrame(c), RawFrame(c), OtherFrame(c), BadJsonFrame(c), BinaryFrame(c)}
               \cup {ResizeFrame(c, z[1], z[2]) : z \in ResizeSizes}

\* Line 235: msg.json() for text starting with '{', else an input envelope
\* around the text.  Invalid JSON raises.
JsonError == [type |-> "JSONDecodeError", data |-> "", rows |-> 0, cols |-> 0]

Decode(m) ==
    IF m.brace
    THEN IF m.valid
         THEN [type |-> m.type, data |-> m.data, rows |-> m.rows, cols |-> m.cols]
         ELSE JsonError
    ELSE [type |-> "input", data |-> m.text, rows |-> 0, cols |-> 0]

DispatchNoModeCheck(data, gp, text) ==
    IF data.type = "resize"
    THEN [op |-> "resize", data |-> "", rows |-> data.rows, cols |-> data.cols]
    ELSE IF data.type = "input"
    THEN [op |-> "write", data |-> data.data, rows |-> 0, cols |-> 0]
    ELSE [op |-> "write", data |-> text, rows |-> 0, cols |-> 0]

\* Lines 237-243: what the handler does with a decoded frame.
Dispatch(data, gp, text) ==
    IF data.type = "resize"
    THEN [op |-> "resize", data |-> "", rows |-> data.rows, cols |-> data.cols]
    ELSE IF data.type = "input" /\ ~gp
    THEN [op |-> "write", data |-> data.data, rows |-> 0, cols |-> 0]
    ELSE IF ~gp
    THEN [op |-> "write", data |-> text, rows |-> 0, cols |-> 0]
    ELSE [op |-> "none", data |-> "", rows |-> 0, cols |-> 0]

\* ------------------------------------------------ WebTerminal on the pty
PtyOfFirst(c) == IF terminal[c].master_fd = 0 THEN 0 ELSE fds[1]

\* The pty a descriptor number currently refers to: the connection whose
\* master it is, 0 when the number is not open.
PtyOf(c) == IF terminal[c].master_fd = 0 THEN 0 ELSE fds[terminal[c].master_fd]

\* os.write on the master of a pty whose slave side is closed succeeds or
\* fails with EIO, depending on the platform; on the master of a pty whose
\* program does not read, it fails with EAGAIN once the input queue is full
\* (the descriptor is non-blocking, line 142).
WriteOutcomes == {"ok", "oserror", "wouldblock"}

\* WebTerminal.write (lines 172-175) raises: descriptor not open, or the
\* write to a pty without a reader fails, or the write to the non-blocking
\* master of a pty whose program is not reading finds its input queue full.
WriteRaises(c, wr) ==
    /\ terminal[c].master_fd # 0
    /\ \/ PtyOf(c) = 0
       \/ child[PtyOf(c)].st \notin AliveStates /\ wr = "oserror"
       \/ child[PtyOf(c)].st \in AliveStates /\ wr = "wouldblock"

\* The exception os.write (line 175) raises then.
WriteError(c, wr) ==
    IF PtyOf(c) # 0 /\ child[PtyOf(c)].st \in AliveStates /\ wr = "wouldblock"
    THEN "BlockingIOError" ELSE "OSError"

TerminalWriteTwice(c, d) ==
    LET p == PtyOf(c)
        w == [op |-> "write", data |-> d, rows |-> 0, cols |-> 0, to |-> p]
    IN
    /\ effects' = [effects EXCEPT ![c] = Append(Append(@, w), w)]
    /\ UNCHANGED <<ptyOut, sessions>>

\* WebTerminal.write (lines 172-175) when os.write succeeds: the text reaches
\* the pty; the terminal echoes it, and a tmux client hands it to its
\* session, which shows it to every attached client.
TerminalWrite(c, d) ==
    LET p == PtyOf(c) IN
    /\ effects' = [effects EXCEPT ![c] = Append(@, [op |-> "write", data |-> d, rows |-> 0, cols |-> 0, to |-> p])]
    /\ IF p = 0 \/ child[p].st \notin AliveStates
       THEN UNCHANGED <<ptyOut, sessions>>
       ELSE IF child[p].st = "attached"
       THEN LET n == terminal[p].session_name IN
            /\ sessions' = [sessions EXCEPT ![n].scroll = @ \cup {d}]
            /\ ptyOut' = [x \in Conns |-> IF x \in AttachedTo(n)
                                          THEN Append(ptyOut[x], Chunk("echo", {d}))
                                          ELSE ptyOut[x]]
       ELSE /\ ptyOut' = Push(p, Chunk("echo", {d}))
            /\ UNCHANGED sessions

\* WebTerminal.resize (lines 166-170) raises: a value does not pack as 'H',
\* or the descriptor is not open.
ResizeRaises(c, rows, cols) ==
    /\ terminal[c].master_fd # 0
    /\ \/ ~PacksAsH(rows)
       \/ ~PacksAsH(cols)
       \/ PtyOf(c) = 0

\* WebTerminal.resize (lines 166-170) when the ioctl is made.
TerminalResize(c, rows, cols) ==
    LET p == PtyOf(c) IN
    /\ effects' = [effects EXCEPT ![c] = Append(@, [op |-> "resize", data |-> "", rows |-> rows, cols |-> cols, to |-> p])]
    /\ winsize' = [winsize EXCEPT ![p] = <<rows, cols>>]

\* WebTerminal.read (lines 177-184): the outcome of os.read.  Every outcome
\* but "data" reaches read_loop as a falsy value.
ReadOutcome(c) ==
    LET p == PtyOf(c) IN
    IF terminal[c].master_fd = 0 THEN "none"
    ELSE IF p = 0 THEN "ebadf"
    ELSE IF ptyOut[p] # <<>> THEN "data"
    ELSE IF child[p].st \in AliveStates THEN "wouldblock"
    ELSE "eof"

\* WebTerminal.close (lines 186-195) raises: os.close on a number that is
\* not open.
CloseRaises(c) == terminal[c].master_fd # 0 /\ PtyOf(c) = 0

\* Lines 190-193: the pid is signalled and waited for, and it neither has
\* exited nor dies of the hangup or of SIGTERM: waitpid does not return.
WaitBlocks(c) ==
    /\ ~CloseRaises(c)
    /\ terminal[c].pid # 0
    /\ child[terminal[c].pid].st \in AliveStates
    /\ deaf[terminal[c].pid]

ReleaseHandleAllFds(c) ==
    LET fd  == terminal[c].master_fd
        pid == terminal[c].pid
    IN
    /\ closeCalls' = [closeCalls EXCEPT ![c] = IF fd # 0 THEN @ + 1 ELSE @]
    /\ fds' = [f \in Fds |-> 0]
    /\ killCalls' = [killCalls EXCEPT ![c] = IF pid # 0 THEN @ + 1 ELSE @]
    /\ child' = [child EXCEPT ![c] =
          IF @.st \in AliveStates \cup {"exited"} THEN [@ EXCEPT !.st = "reaped"] ELSE @]

ReleaseHandleNoKill(c) ==
    LET fd == terminal[c].master_fd
        p  == PtyOf(c)
    IN
    /\ closeCalls' = [closeCalls EXCEPT ![c] = IF fd # 0 THEN @ + 1 ELSE @]
    /\ fds' = IF fd # 0 /\ p # 0 THEN [fds EXCEPT ![fd] = 0] ELSE fds
    /\ child' = [x \in Conns |-> IF x = p /\ child[x].st \in AliveStates
                                 THEN [child[x] EXCEPT !.st = "exited"] ELSE child[x]]
    /\ UNCHANGED killCalls

\* WebTerminal.close (lines 188-195): close the descriptor number, then
\* signal and reap the pid; errors of the latter two are swallowed.  Closing
\* the master hangs up the program on that pty.  A program that ignores both
\* signals lives on, and is reaped when waitpid returns (WaitReturns).
ReleaseHandle(c) ==
    LET fd  == terminal[c].master_fd
        pid == terminal[c].pid
        p   == PtyOf(c)
        hup == [x \in Conns |-> IF x = p /\ child[x].st \in AliveStates /\ ~deaf[x]
                                THEN [child[x] EXCEPT !.st = "exited"] ELSE child[x]]
    IN
    /\ closeCalls' = [closeCalls EXCEPT ![c] = IF fd # 0 THEN @ + 1 ELSE @]
    /\ fds' = IF fd # 0 /\ p # 0 THEN [fds EXCEPT ![fd] = 0] ELSE fds
    /\ IF CloseRaises(c)
       THEN UNCHANGED <<child, killCalls>>
       ELSE IF pid # 0
       THEN /\ killCalls' = [killCalls EXCEPT ![c] = @ + 1]
            /\ child' = [hup EXCEPT ![pid] =
                  IF @.st = "exited" \/ (@.st \in AliveStates /\ ~deaf[pid])
                  THEN [@ EXCEPT !.st = "reaped"] ELSE @]
       ELSE /\ child' = hup
            /\ UNCHANGED killCalls

close_kills_session(c) ==
    /\ ReleaseHandle(c)
    /\ sessions' = [n \in Names |-> IF n = terminal[c].session_name
                                    THEN NoSession ELSE sessions[n]]

\* WebTerminal.close (lines 186-195): the handle is released; the tmux
\* server is not touched, so a tmux session stays as it is.
close(c) ==
    /\ ReleaseHandle(c)
    /\ UNCHANGED sessions

TeardownNoCancel(c, exc) ==
    /\ UNCHANGED read_task
    /\ close(c)
    /\ pc' = [pc EXCEPT ![c] = IF WaitBlocks(c) THEN "waitpid" ELSE "done"]
    /\ chan' = [chan EXCEPT ![c] = IF WaitBlocks(c) THEN @ ELSE "closed"]
    /\ raised' = [raised EXCEPT ![c] = IF CloseRaises(c) THEN "EBADF" ELSE exc]

TeardownNoFinally(c, exc) ==
    /\ read_task' = [read_task EXCEPT ![c] = IF @ = "running" THEN "cancelled" ELSE @]
    /\ IF exc = "none" THEN close(c)
       ELSE UNCHANGED <<fds, child, closeCalls, killCalls, sessions>>
    /\ pc' = [pc EXCEPT ![c] = "done"]
    /\ chan' = [chan EXCEPT ![c] = "closed"]
    /\ raised' = [raised EXCEPT ![c] = exc]

\* The finally clause of terminal_handler (lines 244-248) and the end of the
\* handler: cancel the read task, close the terminal, and the websocket is
\* closed as the handler returns or raises exc.
Teardown(c, exc) ==
    /\ read_task' = [read_task EXCEPT ![c] = IF @ = "running" THEN "cancelled" ELSE @]
    /\ close(c)
    /\ pc' = [pc EXCEPT ![c] = IF WaitBlocks(c) THEN "waitpid" ELSE "done"]
    /\ chan' = [chan EXCEPT ![c] = IF WaitBlocks(c) THEN @ ELSE "closed"]
    /\ raised' = [raised EXCEPT ![c] = IF CloseRaises(c) THEN "EBADF" ELSE exc]

\* The child of a handler waiting in close (line 193) has exited by itself:
\* waitpid reaps it and returns, close and the handler end.
WaitReturns(c) ==
    /\ pc[c] = "waitpid"
    /\ child[terminal[c].pid].st = "exited"
    /\ child' = [child EXCEPT ![terminal[c].pid] = [@ EXCEPT !.st = "reaped"]]
    /\ pc' = [pc EXCEPT ![c] = "done"]
    /\ chan' = [chan EXCEPT ![c] = "closed"]
    /\ UNCHANGED <<webVars, tmuxAvail, query, inbox, delivered, deaf, sessions, fds, is_gpustat,
                   terminal, read_task, sawEOF, msg, effects, winsize, ptyOut,
                   wsOut, closeCalls, killCalls, raised, spawned, nmsgs, nkills,
                   lastKill, nstats>>

NoTeardown == UNCHANGED <<read_task, fds, child, closeCalls, killCalls, pc, chan, raised>>

\* ------------------------------------------------------- terminal_handler
\* The body of `async for msg in ws` (lines 234-243) for frame m; an
\* exception raised in it leaves the loop through the finally clause.
Handle(c, m, wr) ==
    /\ ~Blocked
    /\ pc[c] = "running"
    /\ nmsgs < MaxMsgs
    /\ nmsgs' = nmsgs + 1
    /\ msg' = [msg EXCEPT ![c] = m]
    /\ IF m.wstype # "TEXT"
       THEN /\ NoTeardown
            /\ UNCHANGED <<effects, winsize, ptyOut, sessions>>
       ELSE IF Decode(m) = JsonError
       THEN /\ Teardown(c, "JSONDecodeError")
            /\ UNCHANGED <<effects, winsize, ptyOut>>
       ELSE LET e == Dispatch(Decode(m), is_gpustat[c], m.text) IN
            IF e.op = "resize"
            THEN IF ResizeRaises(c, e.rows, e.cols)
                 THEN /\ Teardown(c, "error")
                      /\ UNCHANGED <<effects, winsize, ptyOut>>
                 ELSE /\ IF terminal[c].master_fd # 0
                         THEN TerminalResize(c, e.rows, e.cols)
                         ELSE UNCHANGED <<effects, winsize>>
                      /\ NoTeardown
                      /\ UNCHANGED <<ptyOut, sessions>>
            ELSE IF e.op = "write"
            THEN IF WriteRaises(c, wr)
                 THEN /\ Teardown(c, WriteError(c, wr))
                      /\ UNCHANGED <<effects, winsize, ptyOut>>
                 ELSE /\ IF terminal[c].master_fd # 0
                         THEN TerminalWrite(c, e.data)
                         ELSE UNCHANGED <<effects, ptyOut, sessions>>
                      /\ NoTeardown
                      /\ UNCHANGED winsize
            ELSE /\ NoTeardown
                 /\ UNCHANGED <<effects, winsize, ptyOut, sessions>>
    /\ UNCHANGED <<webVars, tmuxAvail, query, deaf, is_gpustat, terminal, sawEOF, wsOut,
                   spawned, nkills, lastKill, nstats>>

\* One iteration of `async for msg in ws` (lines 233-243) for a frame m that
\* arrives while the handler waits for one: it is taken at once.
HandleMsg(c, m, wr) ==
    /\ chan[c] = "open"
    /\ inbox[c] = <<>>
    /\ Handle(c, m, wr)
    /\ UNCHANGED <<inbox, delivered>>

\* The websocket receives frame m from the client while the handler is busy;
\* the frame waits in the queue of the websocket.
Deliver(c, m) ==
    /\ pc[c] = "running"
    /\ chan[c] = "open"
    /\ Len(delivered[c]) < MaxMsgs
    /\ inbox' = [inbox EXCEPT ![c] = Append(@, m)]
    /\ delivered' = [delivered EXCEPT ![c] = Append(@, m)]
    /\ UNCHANGED <<webVars, tmuxAvail, query, deaf, sessions, fds, pc, is_gpustat, terminal,
                   read_task, sawEOF, chan, msg, effects, winsize, child, ptyOut,
                   wsOut, closeCalls, killCalls, raised, spawned, nmsgs, nkills,
                   lastKill, nstats>>

NextFrameNewest(q) == q[Len(q)]

\* Line 233: `async for msg in ws` yields the frames in the order received.
NextFrame(q) == Head(q)

\* One iteration of `async for msg in ws` (lines 233-243) for the next of
\* the frames waiting in the websocket.
TakeMsg(c, wr) ==
    /\ inbox[c] # <<>>
    /\ Handle(c, NextFrame(inbox[c]), wr)
    /\ inbox' = [inbox EXCEPT ![c] = Tail(@)]
    /\ UNCHANGED delivered

\* The client closes the websocket, or the connection is lost.
ClientClose(c) ==
    /\ pc[c] = "running"
    /\ chan[c] = "open"
    /\ chan' = [chan EXCEPT ![c] = "closing"]
    /\ UNCHANGED <<webVars, tmuxAvail, query, inbox, delivered, deaf, sessions, fds, pc, is_gpustat, terminal,
                   read_task, sawEOF, msg, effects, winsize, child, ptyOut,
                   wsOut, closeCalls, killCalls, raised, spawned, nmsgs, nkills, lastKill, nstats>>

\* `async for msg in ws` ends on the close (line 233), after the frames
\* received before it, and the finally clause runs (lines 244-248).
ObserveClose(c) ==
    /\ ~Blocked
    /\ pc[c] = "running"
    /\ chan[c] = "closing"
    /\ inbox[c] = <<>>
    /\ Teardown(c, "none")
    /\ UNCHANGED <<webVars, tmuxAvail, query, inbox, delivered, deaf, is_gpustat, terminal, sawEOF, msg,
                   effects, winsize, ptyOut, wsOut, spawned, nmsgs, nkills, lastKill, nstats>>

\* One iteration of read_loop (lines 223-228).  Output is sent to the
\* websocket; sending on a websocket whose peer is gone may raise (sent =
\* FALSE), which ends the task.  A falsy result changes nothing.
ReadTick(c, sent) ==
    /\ ~Blocked
    /\ read_task[c] = "running"
    /\ sawEOF' = [sawEOF EXCEPT ![c] = @ \/ ReadOutcome(c) = "eof"]
    /\ IF ReadOutcome(c) = "data"
       THEN LET p == PtyOf(c) IN
            /\ ptyOut' = [ptyOut EXCEPT ![p] = Tail(@)]
            /\ IF sent
               THEN /\ wsOut' = [wsOut EXCEPT ![c] = Append(@, Head(ptyOut[p]))]
                    /\ UNCHANGED read_task
               ELSE /\ chan[c] = "closing"
                    /\ read_task' = [read_task EXCEPT ![c] = "failed"]
                    /\ UNCHANGED wsOut
       ELSE /\ sent
            /\ UNCHANGED <<ptyOut, wsOut, read_task>>
    /\ UNCHANGED <<webVars, tmuxAvail, query, inbox, delivered, deaf, sessions, fds, pc, is_gpustat, terminal,
                   chan, msg, effects, winsize, child, closeCalls, killCalls,
                   raised, spawned, nmsgs, nkills, lastKill, nstats>>

\* --------------------------------------------------------- kill by name
\* Exit code of `tmux kill-session -t name`, "none" when tmux is not run.
KillRc(session_name) ==
    IF session_name # None /\ tmuxAvail
    THEN (IF sessions[session_name].live THEN "0" ELSE "1")
    ELSE "none"

kill_session_noop(session_name) == UNCHANGED <<sessions, child, ptyOut>>

\* WebTerminal.kill_session (lines 197-201): `tmux kill-session -t name`
\* when tmux is installed; tmux ends the session if it exists.
kill_session(session_name) ==
    IF session_name # None /\ tmuxAvail /\ sessions[session_name].live
    THEN EndSession(session_name)
    ELSE UNCHANGED <<sessions, child, ptyOut>>

KillSessionUnlessAttached(n) ==
    /\ ~Blocked
    /\ nkills < MaxKills
    /\ nkills' = nkills + 1
    /\ IF AttachedTo(n) = {} THEN kill_session(n) ELSE kill_session_noop(n)
    /\ lastKill' = [session |-> n, status |-> IF AttachedTo(n) = {} THEN "ok" ELSE "error",
                    rc |-> KillRc(n)]
    /\ UNCHANGED <<webVars, tmuxAvail, query, inbox, delivered, deaf, fds, pc, is_gpustat, terminal,
                   read_task, sawEOF, chan, msg, effects, winsize, wsOut, closeCalls,
                   killCalls, raised, spawned, nmsgs, nstats>>

KillSessionStrict(n) ==
    /\ ~Blocked
    /\ nkills < MaxKills
    /\ nkills' = nkills + 1
    /\ kill_session(n)
    /\ lastKill' = [session |-> n, status |-> IF KillRc(n) = "0" THEN "ok" ELSE "error",
                    rc |-> KillRc(n)]
    /\ UNCHANGED <<webVars, tmuxAvail, query, inbox, delivered, deaf, fds, pc, is_gpustat, terminal,
                   read_task, sawEOF, chan, msg, effects, winsize, wsOut, closeCalls,
                   killCalls, raised, spawned, nmsgs, nstats>>

\* kill_session_handler (lines 251-257) for a non-empty session parameter.
kill_session_handler(n) ==
    /\ ~Blocked
    /\ nkills < MaxKills
    /\ nkills' = nkills + 1
    /\ kill_session(n)
    /\ lastKill' = [session |-> n, status |-> "ok", rc |-> KillRc(n)]
    /\ UNCHANGED <<tmuxAvail, query, inbox, delivered, deaf, fds, pc, is_gpustat, terminal, read_task,
                   sawEOF, chan, msg, effects, winsize, wsOut, closeCalls,
                   killCalls, raised, spawned, nmsgs, nstats>>

\* A request for /kill-session?session=n that reaches kill_session_handler.
KillSession(n) ==
    /\ kill_session_handler(n)
    /\ UNCHANGED webVars

\* WebTerminal.close (lines 186-195) called once more on the terminal of a
\* handler that has already closed it.
CloseAgain(c) ==
    /\ ~Blocked
    /\ pc[c] = "done"
    /\ closeCalls[c] < 2
    /\ close(c)
    /\ raised' = [raised EXCEPT ![c] = IF CloseRaises(c) THEN "EBADF" ELSE @]
    /\ UNCHANGED <<webVars, tmuxAvail, query, inbox, delivered, deaf, pc, is_gpustat, terminal, read_task, sawEOF, chan,
                   msg, effects, winsize, ptyOut, wsOut, spawned, nmsgs, nkills,
                   lastKill, nstats>>

\* ------------------------------------------------- sessions and middleware
\* Users of the htpasswd file and the passwords a form can carry.
Usernames == {"alice"}
Passwords == {"right", "wrong"}

\* htpasswd_exists (lines 53-61): the file is there, can be read, and has a
\* non-blank line; an exception while reading gives False.
htpasswd_exists == htpasswd = "users"

\* verify_htpasswd (lines 36-50): `htpasswd -vb` on the file succeeds.
verify_htpasswd(username, password) ==
    htpasswd = "users" /\ username \in Usernames /\ password = "right"

\* verify_session (lines 63-68).
verify_session(cookie) == cookie # None /\ SESSIONS[cookie] # None

\* create_session (lines 70-74) with the id secrets.token_urlsafe returned.
create_session(username, session_id) == [SESSIONS EXCEPT ![session_id] = username]

\* Paths for which the middleware answers 401 rather than a redirect.
ApiPaths == {"/terminal", "/state", "/list-dirs", "/kill-session"}

\* auth_middleware (lines 1524-1544): "handler" when the request is passed
\* on, otherwise the response of the middleware itself.
auth_middleware(path, cookie) ==
    IF path = "/login" THEN "handler"
    ELSE IF ~htpasswd_exists THEN "handler"
    ELSE IF ~verify_session(cookie) THEN (IF path \in ApiPaths THEN "401" ELSE "login")
    ELSE "handler"

Tick == 1 - lastReq.tick

bridgeVars == <<tmuxAvail, sessions, fds, pc, is_gpustat, terminal, read_task, sawEOF,
                chan, msg, effects, winsize, child, ptyOut, wsOut, closeCalls,
                killCalls, raised, spawned, nmsgs, nkills, lastKill, nstats, inbox,
                delivered, deaf, query>>

\* The administrator creates, fills, empties, protects or removes the file.
AdminWrites(v) ==
    /\ v \in HtpasswdStates \ {htpasswd}
    /\ htpasswd' = v
    /\ UNCHANGED <<SESSIONS, state_file, lastReq, bridgeVars, pageVars>>

\* POST /login: login_handler (lines 1492-1511), which the middleware
\* always passes on.
login_handler(username, password, session_id) ==
    /\ SESSIONS[session_id] = None
    /\ IF ~htpasswd_exists
       THEN /\ SESSIONS' = create_session("anonymous", session_id)
            /\ lastReq' = Req("/login", "POST", None, "handler", session_id, Tick)
       ELSE IF verify_htpasswd(username, password)
       THEN /\ SESSIONS' = create_session(username, session_id)
            /\ lastReq' = Req("/login", "POST", None, "handler", session_id, Tick)
       ELSE /\ UNCHANGED SESSIONS
            /\ lastReq' = Req("/login", "POST", None, "handler", None, Tick)
    /\ UNCHANGED <<htpasswd, state_file, bridgeVars, pageVars>>

logout_keeps_session(cookie) ==
    /\ lastReq' = Req("/logout", "GET", cookie, auth_middleware("/logout", cookie), None, Tick)
    /\ UNCHANGED <<SESSIONS, htpasswd, state_file, bridgeVars, pageVars>>

\* GET /logout: the middleware, and logout_handler (lines 1514-1521) when
\* the request is passed on.
logout_handler(cookie) ==
    /\ lastReq' = Req("/logout", "GET", cookie, auth_middleware("/logout", cookie), None, Tick)
    /\ SESSIONS' = IF auth_middleware("/logout", cookie) = "handler" /\ verify_session(cookie)
                   THEN [SESSIONS EXCEPT ![cookie] = None]
                   ELSE SESSIONS
    /\ UNCHANGED <<htpasswd, state_file, bridgeVars, pageVars>>

\* GET /terminal: the middleware, and terminal_handler when passed on.
RequestTerminal(c, gp, name, cookie) ==
    /\ lastReq' = Req("/terminal", "GET", cookie, auth_middleware("/terminal", cookie), None, Tick)
    /\ IF auth_middleware("/terminal", cookie) = "handler"
       THEN terminal_handler(c, gp, name)
       ELSE UNCHANGED bridgeVars
    /\ UNCHANGED <<htpasswd, SESSIONS, state_file, pageVars>>

\* GET /kill-session: the middleware, and kill_session_handler when passed on.
RequestKill(n, cookie) ==
    /\ lastReq' = Req("/kill-session", "GET", cookie, auth_middleware("/kill-session", cookie), None, Tick)
    /\ IF auth_middleware("/kill-session", cookie) = "handler"
       THEN kill_session_handler(n)
       ELSE UNCHANGED bridgeVars
    /\ UNCHANGED <<htpasswd, SESSIONS, state_file, pageVars>>

\* POST /state: the middleware, and save_state_handler (lines 266-273) with
\* save_server_state (lines 88-94) when passed on.
RequestSaveState(blob, cookie) ==
    /\ lastReq' = Req("/state", "POST", cookie, auth_middleware("/state", cookie), None, Tick)
    /\ state_file' = IF auth_middleware("/state", cookie) = "handler" THEN blob ELSE state_file
    /\ UNCHANGED <<htpasswd, SESSIONS, bridgeVars, pageVars>>

\* GET /state, GET /list-dirs and GET /: the middleware, and handlers that
\* change nothing (lines 260-263, 276-333, 336).
RequestRead(path, cookie) ==
    /\ path \in {"/state", "/list-dirs", "/"}
    /\ lastReq' = Req(path, "GET", cookie, auth_middleware(path, cookie), None, Tick)
    /\ UNCHANGED <<htpasswd, SESSIONS, state_file, bridgeVars, pageVars>>

\* ------------------------------------------------------ the page (browser)
\* The script of the page index_handler serves (lines 672-1302).  A tab id
\* is `term-N`, `vscode-N` or `gpustat-N` with N = ++tabCounter, so N alone
\* names the tab, and the Map keeps its keys in the order of N.
Prefix(type) == CASE type = "terminal" -> "term"
                  [] type = "vscode"   -> "vscode"
                  [] type = "gpustat"  -> "gpustat"
                  [] OTHER             -> None

\* generateSessionName (lines 796-798): a name of its own for every tab.
generateSessionName(n) == <<"web1", "web2", "web3", "web4", "web5", "web6">>[n]

\* The script's variables as one value, so that a function of the script
\* that calls another can be written as an operator on it.
Page == [tabs |-> tabs, activeTabId |-> activeTabId, tabCounter |-> tabCounter,
         sockets |-> sockets, fetches |-> fetches]

SetPage(P) ==
    /\ tabs' = P.tabs
    /\ activeTabId' = P.activeTabId
    /\ tabCounter' = P.tabCounter
    /\ sockets' = P.sockets
    /\ fetches' = P.fetches

\* Array.from(tabs.keys()).
Keys(P) == {n \in TabNumbers : P.tabs[n] # NoTab}

Last(S) == CHOOSE n \in S : \A x \in S : x <= n

\* activateTab (lines 982-1012).
Activated(P, n) ==
    IF P.activeTabId = n THEN P
    ELSE IF n \in Keys(P) THEN [P EXCEPT !.activeTabId = n]
    ELSE P

\* createTerminalTab, createVSCodeTab and createGPUStatTab (lines 800-980):
\* the next tab id, a WebSocket for a terminal or a monitor, the entry in
\* the Map, and activateTab.
Created(P, type, sessionName) ==
    LET n == P.tabCounter + 1
        s == IF type # "terminal" THEN None
             ELSE IF sessionName # None THEN sessionName ELSE generateSessionName(n)
    IN Activated([P EXCEPT !.tabCounter = n,
                           !.tabs[n] = Tab(type, s),
                           !.sockets[n] = IF type = "vscode" THEN "none" ELSE "CONNECTING"],
                 n)

\* closeTab up to the activation of another tab (lines 1015-1043): the
\* WebSocket of a terminal tab is closed if it is open, /kill-session is
\* asked for its session, the tab leaves the Map, and if it was the active
\* tab the last of the remaining tabs is activated.
Removed(P, n) ==
    LET tab == P.tabs[n]
        P1  == IF tab.type = "terminal"
               THEN [P EXCEPT !.sockets[n] = IF @ = "OPEN" THEN "CLOSING" ELSE @,
                              !.fetches = IF tab.sessionName # None
                                          THEN @ \cup {tab.sessionName} ELSE @]
               ELSE P
        P2  == [P1 EXCEPT !.tabs[n] = NoTab]
    IN IF P2.activeTabId = n
       THEN LET P0 == [P2 EXCEPT !.activeTabId = NoTabId] IN
            IF Keys(P0) # {} THEN Activated(P0, Last(Keys(P0))) ELSE P0
       ELSE P2

ClosedNoNewTab(P, n) ==
    IF P.tabs[n] = NoTab THEN P ELSE Removed(P, n)

\* closeTab with killSession = true, as every caller has it (lines
\* 1014-1051): a terminal tab is created if none is left.
Closed(P, n) ==
    IF P.tabs[n] = NoTab THEN P
    ELSE IF Keys(Removed(P, n)) = {} THEN Created(Removed(P, n), "terminal", None)
    ELSE Removed(P, n)

\* What loadServerState can return: nothing saved; what saveServerState
\* wrote (tabCounter at least the number of every saved id); a state file
\* without tabCounter, whose ids the restored tabs take again.
SavedTab(type, sessionName) == [type |-> type, sessionName |-> sessionName]
NoSavedId == <<None, 0>>
SavedStates ==
    { [tabs |-> <<>>, activeTabId |-> NoSavedId, tabCounter |-> 0],
      [tabs |-> <<SavedTab("terminal", "a")>>, activeTabId |-> <<"term", 1>>, tabCounter |-> 1],
      [tabs |-> <<SavedTab("terminal", "a"), SavedTab("vscode", None)>>,
       activeTabId |-> <<"term", 1>>, tabCounter |-> 0] }

\* state.tabs.forEach of init (lines 1284-1290).
RECURSIVE Restored(_, _)
Restored(P, saved) ==
    IF saved = <<>> THEN P
    ELSE Restored(Created(P, Head(saved).type, Head(saved).sessionName), Tail(saved))

\* tabs.has(id) for a saved tab id.
Has(P, id) == id # NoSavedId /\ id[2] \in Keys(P) /\ Prefix(P.tabs[id[2]].type) = id[1]

\* init (lines 1272-1300), run when loadServerState has answered.
init(state) ==
    /\ phase = "loading"
    /\ phase' = "ready"
    /\ IF Len(state.tabs) > 0
       THEN LET P0 == [Page EXCEPT !.tabCounter = state.tabCounter]
                P1 == Restored(P0, state.tabs)
            IN /\ state.tabCounter + Len(state.tabs) <= MaxTabs
               /\ SetPage(IF Has(P1, state.activeTabId)
                          THEN Activated(P1, state.activeTabId[2]) ELSE P1)
       ELSE /\ tabCounter < MaxTabs
            /\ SetPage(Created(Page, "terminal", None))
    /\ UNCHANGED <<htpasswd, SESSIONS, state_file, lastReq, bridgeVars>>

\* The user opens a tab on the loaded page: button or shortcut (lines
\* 1205-1269).
createTab(type) ==
    /\ phase = "ready"
    /\ type \in {"terminal", "vscode", "gpustat"}
    /\ tabCounter < MaxTabs
    /\ SetPage(Created(Page, type, None))
    /\ UNCHANGED <<phase, htpasswd, SESSIONS, state_file, lastReq, bridgeVars>>

\* The user clicks the title of a tab, or steps to it with Ctrl+Tab.
activateTab(n) ==
    /\ phase = "ready"
    /\ n \in Keys(Page)
    /\ SetPage(Activated(Page, n))
    /\ UNCHANGED <<phase, htpasswd, SESSIONS, state_file, lastReq, bridgeVars>>

\* The user clicks the close button of a tab, or closes the active tab with
\* the shortcut (lines 1211-1223).
closeTab(n) ==
    /\ phase = "ready"
    /\ n \in Keys(Page)
    /\ Keys(Page) = {n} => tabCounter < MaxTabs
    /\ SetPage(Closed(Page, n))
    /\ UNCHANGED <<phase, htpasswd, SESSIONS, state_file, lastReq, bridgeVars>>

\* The server accepts the WebSocket of tab n.
WsOpens(n) ==
    /\ sockets[n] = "CONNECTING"
    /\ sockets' = [sockets EXCEPT ![n] = "OPEN"]
    /\ UNCHANGED <<tabs, activeTabId, tabCounter, fetches, phase,
                   htpasswd, SESSIONS, state_file, lastReq, bridgeVars>>

\* The WebSocket of tab n is closed: the closing handshake ends, the server
\* closes it, or the connection fails.
WsCloses(n) ==
    /\ sockets[n] \in {"CONNECTING", "OPEN", "CLOSING"}
    /\ sockets' = [sockets EXCEPT ![n] = "CLOSED"]
    /\ UNCHANGED <<tabs, activeTabId, tabCounter, fetches, phase,
                   htpasswd, SESSIONS, state_file, lastReq, bridgeVars>>

\* ------------------------------------------------------------ specification
\* One connection at a time, of every kind, with every kind of frame.
Next ==
    \/ \E gp \in BOOLEAN, n \in Names \cup {None} : Connect(1, gp, n)
    \/ Discard(1)
    \/ ChildCheck(1)
    \/ ChildExec(1)
    \/ \E found \in BOOLEAN : ChildCommand(1, found)
    \/ CmdOutput(1)
    \/ \E ends \in BOOLEAN : ChildExit(1, ends)
    \/ \E m \in FramesOf(1), wr \in WriteOutcomes : HandleMsg(1, m, wr)
    \/ ClientClose(1)
    \/ ObserveClose(1)
    \/ \E sent \in BOOLEAN : ReadTick(1, sent)
    \/ \E n \in Names : KillSession(n)

Spec == Init /\ [][Next]_vars

\* Two connections with session names at the same time.
PairFrames(c) == {InputFrame(c), ResizeFrame(c, 30, 100)}

NextPair ==
    \/ \E c \in Conns, n \in Names : Connect(c, FALSE, n)
    \/ \E c \in Conns : ChildCheck(c)
    \/ \E c \in Conns : ChildExec(c)
    \/ \E c \in Conns : \E m \in PairFrames(c), wr \in WriteOutcomes : HandleMsg(c, m, wr)
    \/ \E c \in Conns : ClientClose(c)
    \/ \E c \in Conns : ObserveClose(c)
    \/ \E c \in Conns, sent \in BOOLEAN : ReadTick(c, sent)

SpecPair == Init /\ [][NextPair]_vars

\* Two connections, and close called a second time on a closed terminal.
NextTeardown ==
    \/ NextPair
    \/ \E c \in Conns : CloseAgain(c)

SpecTeardown == Init /\ [][NextTeardown]_vars

\* One monitor connection at a time.  The server and the child take their
\* steps; the client is free never to send or close.
NextMonitor ==
    \/ Connect(1, TRUE, None)
    \/ Discard(1)
    \/ \E found \in BOOLEAN : ChildCommand(1, found)
    \/ CmdOutput(1)
    \/ ChildExit(1, FALSE)
    \/ \E m \in FramesOf(1), wr \in WriteOutcomes : HandleMsg(1, m, wr)
    \/ ClientClose(1)
    \/ ObserveClose(1)
    \/ \E sent \in BOOLEAN : ReadTick(1, sent)

FairMonitor ==
    /\ Init
    /\ [][NextMonitor]_vars
    /\ WF_vars(\E found \in BOOLEAN : ChildCommand(1, found))
    /\ WF_vars(ReadTick(1, TRUE))
    /\ WF_vars(ObserveClose(1))

\* One connection, Interactive without a name or Monitor, whose client
\* sends frames faster than the handler takes them.
QueueFrames(c) == {InputFrame(c), OtherFrame(c), ResizeFrame(c, 30, 100), ResizeFrame(c, 30, 0)}

NextQueue ==
    \/ \E gp \in BOOLEAN : Connect(1, gp, None)
    \/ ChildCheck(1)
    \/ ChildCommand(1, TRUE)
    \/ \E m \in QueueFrames(1) : Deliver(1, m)
    \/ \E wr \in WriteOutcomes : TakeMsg(1, wr)
    \/ ChildExit(1, FALSE)
    \/ ClientClose(1)
    \/ ObserveClose(1)
    \/ \E sent \in BOOLEAN : ReadTick(1, sent)

SpecQueue == Init /\ [][NextQueue]_vars

\* Two connections to plain shells, whose programs may ignore the signals
\* of close.  The server takes its steps; a client is free never to close,
\* a program free never to exit.
NextBlocking ==
    \/ \E c \in Conns : Connect(c, FALSE, None)
    \/ \E c \in Conns : ChildCheck(c)
    \/ \E c \in Conns : ChildIgnoresSignals(c)
    \/ \E c \in Conns : ChildExit(c, FALSE)
    \/ \E c \in Conns : \E wr \in WriteOutcomes : HandleMsg(c, InputFrame(c), wr)
    \/ \E c \in Conns : ClientClose(c)
    \/ \E c \in Conns : ObserveClose(c)
    \/ \E c \in Conns : WaitReturns(c)
    \/ \E c \in Conns, sent \in BOOLEAN : ReadTick(c, sent)

SpecBlocking == Init /\ [][NextBlocking]_vars

FairBlocking ==
    /\ Init
    /\ [][NextBlocking]_vars
    /\ \A c \in Conns :
         /\ WF_vars(ChildCheck(c))
         /\ WF_vars(ObserveClose(c))
         /\ WF_vars(WaitReturns(c))
         /\ WF_vars(ReadTick(c, TRUE))

\* Two connections of every kind, whose spawn may fail in the parent (no
\* pty, no process) or in the child (exec raises).
NextSpawn ==
    \/ \E c \in Conns, gp \in BOOLEAN, n \in {None, "a"} : Connect(c, gp, n)
    \/ \E c \in Conns, gp \in BOOLEAN, n \in {None, "a"} : SpawnFails(c, gp, n)
    \/ \E c \in Conns : ChildCheck(c)
    \/ \E c \in Conns : ChildExec(c)
    \/ \E c \in Conns, found \in BOOLEAN : ChildCommand(c, found)
    \/ \E c \in Conns : ChildExecFails(c)
    \/ \E c \in Conns : ClientClose(c)
    \/ \E c \in Conns : ObserveClose(c)
    \/ \E c \in Conns : ReadTick(c, TRUE)

SpecSpawn == Init /\ [][NextSpawn]_vars

\* Two connections with session names, whose clients send frames the
\* handler fails on: invalid JSON, a resize that does not pack, input whose
\* write fails.
FailFrames(c) == {InputFrame(c), BadJsonFrame(c), ResizeFrame(c, UShortMax + 1, 100)}

NextFail ==
    \/ \E c \in Conns, n \in Names : Connect(c, FALSE, n)
    \/ \E c \in Conns : ChildCheck(c)
    \/ \E c \in Conns : ChildExec(c)
    \/ \E c \in Conns : ChildExit(c, FALSE)
    \/ \E c \in Conns : \E m \in FailFrames(c), wr \in WriteOutcomes : HandleMsg(c, m, wr)
    \/ \E c \in Conns : ReadTick(c, TRUE)

SpecFail == Init /\ [][NextFail]_vars

\* The HTTP layer: logins, logouts and requests with every cookie, while the
\* administrator changes the htpasswd file.  Children and clients of the
\* connections accepted take no step here.
Cookies == Tokens \cup {None}

NextAuth ==
    \/ \E v \in HtpasswdStates : AdminWrites(v)
    \/ \E u \in Usernames, pw \in Passwords, t \in Tokens : login_handler(u, pw, t)
    \/ \E k \in Cookies : logout_handler(k)
    \/ \E c \in Conns, k \in Cookies : RequestTerminal(c, FALSE, "a", k)
    \/ \E k \in Cookies : RequestKill("a", k)
    \/ \E b \in Blobs, k \in Cookies : RequestSaveState(b, k)
    \/ \E path \in {"/state", "/list-dirs", "/"}, k \in Cookies : RequestRead(path, k)

SpecAuth == Init /\ [][NextAuth]_vars

\* One page: it loads, and the user opens, activates and closes tabs while
\* the WebSockets of the tabs open and close.
NextPage ==
    \/ \E state \in SavedStates : init(state)
    \/ \E type \in {"terminal", "vscode", "gpustat"} : createTab(type)
    \/ \E n \in TabNumbers : activateTab(n)
    \/ \E n \in TabNumbers : closeTab(n)
    \/ \E n \in TabNumbers : WsOpens(n)
    \/ \E n \in TabNumbers : WsCloses(n)

SpecPage == Init /\ [][NextPage]_vars

\* ------------------------------------------------------------------ claims
HasChunk(q, kind, marks) == \E i \in 1..Len(q) : q[i] = Chunk(kind, marks)

\* The step is the teardown of connection c.
TornDown(c) == pc[c] = "running" /\ pc'[c] = "done"

\* The step is the child of c running `tmux has-session`.
Checks(c) == child[c].st = "forked" /\ child'[c].st = "checked"

\* The step is the child of c executing the tmux command it chose.
Execs(c) == child[c].st = "checked" /\ child'[c].st # "checked" /\ pc'[c] = "running"

\* C1: the teardown of an Interactive connection with a backing session
\* name releases the handle of that connection only (its descriptor is
\* closed, its child reaped, the descriptors and children of the other
\* connections are as before) and leaves every tmux session as it was, so
\* the named session still exists afterwards.
C1_DetachKeepsSession ==
    [][\A c \in Conns :
         (TornDown(c) /\ ~is_gpustat[c] /\ UsesTmux(terminal[c].session_name))
         => /\ sessions' = sessions
            /\ fds'[terminal[c].master_fd] = 0
            /\ child'[c].st = "reaped"
            /\ \A x \in Conns \ {c} :
                 /\ child'[x] = child[x]
                 /\ \A f \in Fds : fds[f] = x => fds'[f] = x]_vars

C1_Witness ==
    /\ pc[1] = "done"
    /\ UsesTmux(terminal[1].session_name)
    /\ sessions[terminal[1].session_name].live
    /\ sessions[terminal[1].session_name].scroll # {}
    /\ AttachedTo(terminal[1].session_name) = {}
    /\ pc[2] = "running"
    /\ child[2].st = "attached"
    /\ fds[terminal[2].master_fd] = 2

\* C2: a spawn for name n whose has-session finds the backing session n
\* chooses to attach, and the attach to the session that is still there
\* joins it unchanged and replays what was written to it before, so a later
\* connection sees the marker of an earlier, detached one.
C2_ReattachResumes ==
    [][\A c \in Conns :
         /\ (Checks(c) /\ sessions[terminal[c].session_name].live) => child'[c].saw
         /\ (Execs(c) /\ child[c].saw /\ sessions[terminal[c].session_name].live)
            => /\ child'[c].st = "attached"
               /\ sessions' = sessions
               /\ ptyOut'[c] = Append(ptyOut[c],
                                      Chunk("replay", sessions[terminal[c].session_name].scroll))]_vars

C2_Witness ==
    /\ spawned = 2
    /\ nkills = 0
    /\ child[1].st = "attached"
    /\ child[1].saw
    /\ effects[1] = <<>>
    /\ HasChunk(wsOut[1], "replay", {Mark(1)})

\* C3: kill-by-name(n) with tmux installed leaves no backing session n and
\* nothing of its state; a spawn for n that then finds no session chooses to
\* create, and the create makes a session with an empty history.
C3_KillThenFresh ==
    [][/\ (nkills' # nkills /\ tmuxAvail) => sessions'[lastKill'.session] = NoSession
       /\ \A c \in Conns :
            /\ (Checks(c) /\ ~sessions[terminal[c].session_name].live) => ~child'[c].saw
            /\ (Execs(c) /\ ~child[c].saw /\ ~sessions[terminal[c].session_name].live)
               => /\ child'[c].st = "attached"
                  /\ sessions'[terminal[c].session_name] = [live |-> TRUE, scroll |-> {}]
                  /\ ptyOut'[c] = Append(ptyOut[c], Chunk("replay", {}))]_vars

C3_Witness ==
    /\ lastKill.rc = "0"
    /\ spawned = 2
    /\ terminal[1].session_name = lastKill.session
    /\ child[1].st = "attached"
    /\ ~child[1].saw
    /\ sessions[lastKill.session] = [live |-> TRUE, scroll |-> {}]
    /\ wsOut[1] = <<Chunk("replay", {})>>

\* C4: once a read of the relay loop has found end of file, the loop has
\* ended and the connection has been torn down.
C4_EofEndsRelay ==
    \A c \in Conns : sawEOF[c] => (read_task[c] # "running" /\ pc[c] # "running")

\* C5: calling close again on a closed terminal closes no descriptor and
\* signals no pid a second time, and raises nothing.
C5_CloseTwiceSafe ==
    \A c \in Conns : closeCalls[c] <= 1 /\ killCalls[c] <= 1 /\ raised[c] # "EBADF"

\* C6: a running connection holds its handle unreleased; a connection whose
\* handler has ended, on whatever path, has had its descriptor closed once
\* and its child signalled and reaped once; no descriptor stays open for a
\* connection that is not running.
C6_ReleasedExactlyOnce ==
    \A c \in Conns :
      /\ pc[c] = "running" =>
           /\ closeCalls[c] = 0 /\ killCalls[c] = 0
           /\ fds[terminal[c].master_fd] = c
           /\ child[c].st \in AliveStates \cup {"exited"}
      /\ pc[c] = "done" =>
           /\ closeCalls[c] = 1 /\ killCalls[c] = 1
           /\ child[c].st = "reaped"
      /\ pc[c] # "running" => \A f \in Fds : fds[f] # c

C6_Witness ==
    /\ pc[1] = "done"
    /\ raised[1] = "OSError"
    /\ sawEOF[1]
    /\ closeCalls[1] = 1

\* C7: nothing is ever written to the process of a Monitor connection.
C7_MonitorNeverWritten ==
    \A c \in Conns : is_gpustat[c] =>
        \A i \in 1..Len(effects[c]) : effects[c][i].op # "write"

C7_Witness ==
    /\ is_gpustat[1]
    /\ pc[1] = "running"
    /\ child[1].st = "cmd"
    /\ nmsgs = MaxMsgs
    /\ msg[1] = InputFrame(1)

\* C8: a Monitor connection has no session name and its child never runs
\* tmux; when its handler has ended its descriptor is closed and its child
\* reaped; and no step of a Monitor connection changes a tmux session.
C8_MonitorFullyTornDown ==
    /\ [](\A c \in Conns : is_gpustat[c] =>
            /\ terminal[c].session_name = None
            /\ child[c].st \in {"forked", "cmd", "exited", "reaped"}
            /\ pc[c] = "done" => (child[c].st = "reaped" /\ \A f \in Fds : fds[f] # c))
    /\ [][((\A c \in Conns : pc[c] # "idle" => is_gpustat[c]) /\ nkills' = nkills)
          => sessions' = sessions]_vars

C8_Witness ==
    /\ is_gpustat[1]
    /\ pc[1] = "done"
    /\ child[1].saw
    /\ child[1].st = "reaped"
    /\ wsOut[1] = <<Chunk("stats", {})>>

\* C9: a Monitor connection whose command is not installed is eventually
\* closed by the server.
C9_MissingCommandCloses ==
    [](\A c \in Conns :
         (is_gpustat[c] /\ pc[c] = "running" /\ child[c].st = "exited" /\ ~child[c].saw)
         => <>(pc[c] # "running"))

\* C10: of two connections with different session names, what one writes
\* goes to its own pty only, and neither the output delivered to one nor
\* the output waiting in its pty nor its tmux session carries the marker of
\* the other.
C10_NoCrossTalk ==
    \A c \in Conns, x \in Conns :
      (pc[c] # "idle" /\ pc[x] # "idle" /\ terminal[c].session_name # terminal[x].session_name)
      => /\ \A i \in 1..Len(effects[c]) : effects[c][i].to = c
         /\ \A i \in 1..Len(wsOut[c]) : Mark(x) \notin wsOut[c][i].marks
         /\ \A i \in 1..Len(ptyOut[c]) : Mark(x) \notin ptyOut[c][i].marks
         /\ Mark(x) \notin sessions[terminal[c].session_name].scroll

C10_Witness ==
    /\ pc[1] = "running" /\ pc[2] = "running"
    /\ terminal[1].session_name # terminal[2].session_name
    /\ HasChunk(wsOut[1], "echo", {Mark(1)})
    /\ HasChunk(wsOut[2], "echo", {Mark(2)})

\* The step is a /kill-session request.
Kills == nkills' # nkills

\* No connection was opened with session name n.
Unreferenced(n) == \A c \in Conns : pc[c] = "idle" \/ terminal[c].session_name # n

\* What the server holds of each connection.
connState == <<fds, pc, is_gpustat, terminal, read_task, chan, msg, effects,
               winsize, closeCalls, killCalls, raised>>

\* C11: a kill-by-name of n answers success whether or not a session n
\* exists and whether or not a connection was opened with n; it changes no
\* tmux session other than n and nothing the server holds of a connection;
\* when no session n exists, or when no connection was opened with n, it
\* also changes no child and no pty; and it leaves no session n, so that a
\* second kill of n is the kill of an absent session and changes nothing.
C11_KillAbsentIsNoop ==
    [][Kills =>
         LET n == lastKill'.session IN
         /\ lastKill'.status = "ok"
         /\ \A x \in Names \ {n} : sessions'[x] = sessions[x]
         /\ connState' = connState
         /\ ~sessions[n].live => (sessions' = sessions /\ child' = child /\ ptyOut' = ptyOut)
         /\ Unreferenced(n) => (child' = child /\ ptyOut' = ptyOut)
         /\ ~sessions'[n].live]_vars

C11_Witness ==
    /\ lastKill.rc = "1"
    /\ lastKill.status = "ok"
    /\ pc[1] = "running"
    /\ child[1].st = "attached"
    /\ terminal[1].session_name # lastKill.session
    /\ sessions[terminal[1].session_name].live
    /\ Unreferenced(lastKill.session)

\* The step is the handler of c, the only running connection, handling the
\* frame msg'[c].
Handled(c) ==
    /\ nmsgs' # nmsgs
    /\ pc[c] = "running"
    /\ \A x \in Conns \ {c} : pc[x] # "running"

\* The frame is a resize envelope.
IsResize(m) == m.wstype = "TEXT" /\ Decode(m).type = "resize"

\* C12: every resize with rows >= 1 and cols >= 1 handled on an Interactive
\* connection sets the window size of its pty to exactly (rows, cols) in the
\* handling step, before any later read, and leaves the connection open.
C12_ResizeApplied ==
    [][\A c \in Conns :
         (Handled(c) /\ ~is_gpustat[c] /\ IsResize(msg'[c])
            /\ msg'[c].rows >= 1 /\ msg'[c].cols >= 1)
         => /\ winsize'[c] = <<msg'[c].rows, msg'[c].cols>>
            /\ pc'[c] = "running"
            /\ wsOut' = wsOut]_vars

\* The same for the sizes struct.pack accepts: rows and cols between 1 and
\* 65535.  This holds.
ResizeInRangeApplied ==
    [][\A c \in Conns :
         (Handled(c) /\ ~is_gpustat[c] /\ IsResize(msg'[c])
            /\ msg'[c].rows >= 1 /\ msg'[c].rows <= UShortMax
            /\ msg'[c].cols >= 1 /\ msg'[c].cols <= UShortMax)
         => /\ winsize'[c] = <<msg'[c].rows, msg'[c].cols>>
            /\ pc'[c] = "running"
            /\ wsOut' = wsOut]_vars

ResizeInRangeWitness ==
    /\ pc[1] = "running"
    /\ ~is_gpustat[1]
    /\ msg[1] = ResizeFrame(1, 30, 100)
    /\ winsize[1] = <<30, 100>>
    /\ effects[1] = <<[op |-> "resize", data |-> "", rows |-> 30, cols |-> 100, to |-> 1]>>

\* C13: no resize is applied to a pty with a row count or a column count
\* of 0: a resize with rows = 0 or cols = 0 is rejected or clamped.
C13_NoZeroDimension ==
    \A c \in Conns : \A i \in 1..Len(effects[c]) :
        effects[c][i].op = "resize" => (effects[c][i].rows >= 1 /\ effects[c][i].cols >= 1)

\* The frame is a JSON object whose type is neither "resize" nor "input".
IsUnknownEnvelope(m) ==
    m.wstype = "TEXT" /\ m.brace /\ m.valid /\ m.type \notin {"resize", "input"}

\* The write of text d by connection c to its own pty.
WriteOf(c, d) == [op |-> "write", data |-> d, rows |-> 0, cols |-> 0, to |-> c]

C15_NonEnvelopeIsInput ==
    [][\A c \in Conns :
         (Handled(c) /\ ~is_gpustat[c] /\ child[c].st \in AliveStates
            /\ msg'[c].wstype = "TEXT" /\ (~msg'[c].brace \/ ~msg'[c].valid))
         => /\ pc'[c] = "running"
            /\ effects'[c] = Append(effects[c], WriteOf(c, msg'[c].text))]_vars

\* C16: no client message changes the window size of the pty of a Monitor
\* connection: no resize is applied to it, and its size stays as the fork
\* left it.
C16_MonitorResizeIgnored ==
    \A c \in Conns : is_gpustat[c] =>
        /\ winsize[c] = <<0, 0>>
        /\ \A i \in 1..Len(effects[c]) : effects[c][i].op # "resize"

\* What handling the frames of s in order, without an error, applies to the
\* pty of c: the write or the resize of each frame that has one.
RECURSIVE AppliedBy(_, _)
AppliedBy(c, s) ==
    IF s = <<>> THEN <<>>
    ELSE LET e == Dispatch(Decode(Head(s)), is_gpustat[c], Head(s).text) IN
         (IF e.op = "none" THEN <<>>
          ELSE <<[op |-> e.op, data |-> e.data, rows |-> e.rows, cols |-> e.cols, to |-> c]>>)
         \o AppliedBy(c, Tail(s))

\* Frames of c the handler has taken, and those of them it has applied: the
\* frame whose handling raised was not.
Taken(c) == Len(delivered[c]) - Len(inbox[c])
Applied(c) == IF raised[c] = "none" THEN Taken(c) ELSE Taken(c) - 1

\* C17: the frames waiting are the last of the frames the channel
\* delivered, in their order, and what has been applied to the process is
\* what the frames before them apply, one effect per frame, in the order of
\* delivery: no frame overtakes another and none is applied twice.
C17_AppliedInOrder ==
    \A c \in Conns :
      /\ inbox[c] = SubSeq(delivered[c], Taken(c) + 1, Len(delivered[c]))
      /\ effects[c] = AppliedBy(c, SubSeq(delivered[c], 1, Applied(c)))

C17_Witness ==
    /\ ~is_gpustat[1]
    /\ delivered[1] = <<ResizeFrame(1, 30, 100), InputFrame(1)>>
    /\ inbox[1] = <<>>
    /\ effects[1] = <<[op |-> "resize", data |-> "", rows |-> 30, cols |-> 100, to |-> 1],
                      WriteOf(1, Mark(1))>>
    /\ winsize[1] = <<30, 100>>

\* The handle of c is released: descriptor closed, child reaped.
Released(c) == (\A f \in Fds : fds[f] # c) /\ child[c].st = "reaped"

\* C18: once the client has closed the websocket of a connection, the
\* handler eventually has ended with the relay stopped and the handle
\* released; and every teardown step stops the relay and leaves the tmux
\* sessions to the separate kill request.
C18_CloseReleases ==
    /\ \A c \in Conns :
         (chan[c] = "closing") ~> (pc[c] = "done" /\ read_task[c] # "running" /\ Released(c))
    /\ [][\A c \in Conns :
            (pc[c] = "running" /\ pc'[c] # "running")
            => (read_task'[c] # "running" /\ sessions' = sessions)]_vars

\* C19: close never leaves a handler waiting for its child: the wait is
\* bounded, so no state has the event loop held in waitpid with the other
\* connections unserved.
C19_TerminateBounded ==
    \A c \in Conns : pc[c] # "waitpid"

\* C20: without tmux no tmux session ever exists, no child runs or has
\* run a tmux command, and no tmux error reaches a client; the child of a
\* connection with a session name goes from the fork to the plain shell.
C20_FallbackToShell ==
    /\ [](~tmuxAvail =>
            /\ \A n \in Names : sessions[n] = NoSession
            /\ \A c \in Conns :
                 /\ child[c].st \notin {"checked", "attached"}
                 /\ ~HasChunk(ptyOut[c], "tmuxerr", {})
                 /\ ~HasChunk(wsOut[c], "tmuxerr", {}))
    /\ [][\A c \in Conns :
            (~tmuxAvail /\ ~is_gpustat[c] /\ child[c].st = "forked"
               /\ child'[c].st \notin {"forked", "reaped", "none"})
            => child'[c].st = "shell"]_vars

C20_Witness ==
    /\ ~tmuxAvail
    /\ terminal[1].session_name \in Names
    /\ pc[1] = "running"
    /\ child[1].st = "shell"
    /\ effects[1] = <<WriteOf(1, Mark(1))>>
    /\ HasChunk(wsOut[1], "echo", {Mark(1)})

\* C21 as stated: a terminal object carries a session name only if its
\* connection is Interactive, a name was requested and tmux is installed.
C21_NameOnlyWithTmux ==
    \A c \in Conns :
      terminal[c].session_name # None
      => (~is_gpustat[c] /\ query[c].session # None /\ tmuxAvail)

\* C21 amended: the terminal object of an Interactive connection carries
\* exactly the session name of the request, with or without tmux; that of
\* a Monitor connection carries none, whatever the request; and no object
\* carries a name before its connection is accepted.
C21_NameAsRequested ==
    \A c \in Conns :
      /\ pc[c] = "idle" => terminal[c].session_name = None
      /\ pc[c] # "idle" =>
           /\ is_gpustat[c] = query[c].gpustat
           /\ terminal[c].session_name = (IF query[c].gpustat THEN None ELSE query[c].session)

C21_Witness ==
    /\ ~tmuxAvail
    /\ pc[1] = "running"
    /\ query[1] = Query(FALSE, "a")
    /\ terminal[1].session_name = "a"
    /\ child[1].st = "shell"
    /\ sessions["a"] = NoSession

\* C22: no child in which the exec failed goes on running the code of the
\* server: it has exited.
C22_ExecFailureExits ==
    \A c \in Conns : child[c].st # "escaped"

\* The step is a spawn of connection c that fails in the parent.
SpawnFailed(c) == pc[c] = "idle" /\ pc'[c] = "done"

\* C23: a spawn that fails in the parent sends a report of the failure to
\* the client and closes the connection, leaves no descriptor and no child
\* with the connection, and changes nothing of the other connections.
C23_SpawnFailureReported ==
    [][\A c \in Conns :
         SpawnFailed(c)
         => /\ chan'[c] = "closed"
            /\ wsOut'[c] # <<>>
            /\ terminal'[c].master_fd = 0 /\ terminal'[c].pid = 0
            /\ fds' = fds
            /\ child' = child
            /\ \A x \in Conns \ {c} :
                 /\ pc'[x] = pc[x] /\ chan'[x] = chan[x] /\ terminal'[x] = terminal[x]
                 /\ read_task'[x] = read_task[x] /\ wsOut'[x] = wsOut[x]]_vars

\* C24: no would-block of a read or of a write leaves the handler: the
\* connection is not closed by it.
C24_WouldBlockNotSurfaced ==
    \A c \in Conns : raised[c] # "BlockingIOError"

\* Handling frame m on connection c calls terminal.write.
IsWrite(c, m) ==
    /\ m.wstype = "TEXT"
    /\ Decode(m) # JsonError
    /\ Dispatch(Decode(m), is_gpustat[c], m.text).op = "write"

\* C25: handling input for a process that has exited raises nothing into
\* the message loop: the handler goes on.
C25_WriteAfterExitQuiet ==
    [][\A c \in Conns :
         (Handled(c) /\ IsWrite(c, msg'[c]) /\ child[c].st \notin AliveStates)
         => (raised'[c] = "none" /\ pc'[c] = "running")]_vars

\* The step ends the handler of c with an exception raised while it handled
\* a frame.
FailedOn(c) == pc[c] = "running" /\ pc'[c] = "done" /\ raised'[c] # "none"

\* C26: a failure raised while a frame of connection c is handled tears
\* down and closes c, and changes nothing of any other connection (handler,
\* websocket, terminal object, descriptor, child, pty, output) and no tmux
\* session of another name.
C26_FailureContained ==
    [][\A c \in Conns :
         FailedOn(c)
         => /\ chan'[c] = "closed"
            /\ read_task'[c] # "running"
            /\ \A f \in Fds : fds'[f] # c
            /\ \A n \in Names \ {terminal[c].session_name} : sessions'[n] = sessions[n]
            /\ \A x \in Conns \ {c} :
                 /\ pc'[x] = pc[x] /\ chan'[x] = chan[x] /\ terminal'[x] = terminal[x]
                 /\ read_task'[x] = read_task[x] /\ child'[x] = child[x]
                 /\ ptyOut'[x] = ptyOut[x] /\ wsOut'[x] = wsOut[x]
                 /\ effects'[x] = effects[x] /\ winsize'[x] = winsize[x]
                 /\ raised'[x] = raised[x]
                 /\ \A f \in Fds : fds[f] = x => fds'[f] = x]_vars

C26_Witness ==
    /\ pc[1] = "done"
    /\ raised[1] = "JSONDecodeError"
    /\ pc[2] = "running"
    /\ chan[2] = "open"
    /\ child[2].st = "attached"
    /\ fds[terminal[2].master_fd] = 2
    /\ terminal[2].session_name # terminal[1].session_name
    /\ sessions[terminal[2].session_name].live
    /\ HasChunk(wsOut[2], "replay", {})

\* The handler of x accepts a connection in this step.
Accepted(x) == pc[x] = "idle" /\ pc'[x] = "running"

\* C27: a connection whose handler has ended stays ended: no step changes
\* its terminal object, its websocket or its relay task, nothing more is
\* written to or resized on its pty, nothing more is read for it, and close is
\* not called on it again.  A connection accepted afterwards under the same
\* session name gets a terminal object of its own, with a descriptor it owns,
\* a newly forked child, and no effect or output carried over.
C27_TerminatedIsTerminal ==
    [][\A c \in Conns :
         pc[c] = "done"
         => /\ pc'[c] = "done"
            /\ terminal'[c] = terminal[c]
            /\ chan'[c] = chan[c]
            /\ read_task'[c] = read_task[c]
            /\ sawEOF'[c] = sawEOF[c]
            /\ effects'[c] = effects[c]
            /\ wsOut'[c] = wsOut[c]
            /\ closeCalls'[c] = closeCalls[c]
            /\ killCalls'[c] = killCalls[c]
            /\ \A x \in Conns \ {c} :
                 Accepted(x) /\ terminal'[x].session_name = terminal[c].session_name
                 => /\ terminal'[x].master_fd # 0
                    /\ fds'[terminal'[x].master_fd] = x
                    /\ terminal'[x].pid = x
                    /\ child'[x].st = "forked"
                    /\ read_task'[x] = "running"
                    /\ effects'[x] = <<>>
                    /\ wsOut'[x] = <<>>
                    /\ closeCalls'[x] = 0]_vars

\* Witness: the first connection to "a" has ended and released its handle;
\* a second connection to "a" runs on the descriptor number the first one
\* had, attached to the session, and has written its own input.
C27_Witness ==
    /\ pc[1] = "done"
    /\ pc[2] = "running"
    /\ terminal[1].session_name = "a"
    /\ terminal[2].session_name = "a"
    /\ terminal[2].master_fd = terminal[1].master_fd
    /\ fds[terminal[2].master_fd] = 2
    /\ closeCalls[1] = 1
    /\ child[2].st = "attached"
    /\ effects[1] = <<>>
    /\ effects[2] # <<>>
    /\ wsOut[2] # <<>>

\* Descriptors open for connection c, and connections whose terminal object
\* holds the open descriptor f.
HandlesOf(c) == {f \in Fds : fds[f] = c}
HoldersOf(f) == {c \in Conns : pc[c] = "running" /\ terminal[c].master_fd = f}

\* C28: every accepted connection has a terminal object of its own, and no
\* two live connections hold the same descriptor or the same pid; a terminal
\* object has at most one open descriptor and one child, the one recorded in
\* it; and a descriptor is open, and a child alive, only while the
\* connection of its terminal object is running.
C28_OneSessionOneHandle ==
    /\ \A c \in Conns :
         /\ Cardinality(HandlesOf(c)) <= 1
         /\ HandlesOf(c) \subseteq {terminal[c].master_fd}
         /\ pc[c] = "running" => HandlesOf(c) = {terminal[c].master_fd} /\ terminal[c].pid = c
         /\ pc[c] \in {"idle", "done"} => HandlesOf(c) = {} /\ child[c].st \notin AliveStates
         /\ pc[c] = "idle" => terminal[c] = NewTerminal /\ child[c] = NoChild
    /\ \A f \in Fds : Cardinality(HoldersOf(f)) <= 1
    /\ \A c \in Conns, x \in Conns :
         (c # x /\ pc[c] = "running" /\ pc[x] = "running") => terminal[c].pid # terminal[x].pid

\* Witness: two connections to the same session run at the same time, each
\* attached through its own descriptor and child, and each has been written to.
C28_Witness ==
    /\ pc[1] = "running" /\ pc[2] = "running"
    /\ terminal[1].session_name = terminal[2].session_name
    /\ terminal[1].master_fd # terminal[2].master_fd
    /\ fds[terminal[1].master_fd] = 1 /\ fds[terminal[2].master_fd] = 2
    /\ child[1].st = "attached" /\ child[2].st = "attached"
    /\ effects[1] # <<>> /\ effects[2] # <<>>

\* C29: for a request with gpustat=1, whatever session name it also carries,
\* the connection is a Monitor connection without a session name, and its
\* child runs the monitor command or nothing: it never checks for, creates
\* or attaches to a tmux session, and never runs the shell.  Accepting the
\* request changes no tmux session, and no frame the client sends changes
\* the program of the child or a tmux session.
C29_MonitorCommandFixed ==
    [][\A c \in Conns :
         query'[c].gpustat
         => /\ is_gpustat'[c]
            /\ terminal'[c].session_name = None
            /\ child'[c].st \in {"forked", "cmd", "exited", "reaped"}
            /\ Accepted(c) => sessions' = sessions
            /\ Handled(c) => /\ child'[c].st \in {child[c].st, "exited", "reaped"}
                             /\ sessions' = sessions]_vars

\* Witness: tmux is installed and session "a" is live; a request with
\* gpustat=1 and session=a runs the monitor command, attached to nothing,
\* has relayed its statistics, and a frame of the client has been handled.
C29_Witness ==
    /\ tmuxAvail
    /\ sessions["a"].live
    /\ query[1] = Query(TRUE, "a")
    /\ pc[1] = "running"
    /\ child[1].st = "cmd"
    /\ AttachedTo("a") = {}
    /\ msg[1] = RawFrame(1)
    /\ wsOut[1] = <<Chunk("stats", {})>>

\* C30: a /kill-session request for name n answers for that name, and its
\* answer agrees with what the kill did: it answers success, and after it no
\* tmux session n exists: a live one has been ended with its history and
\* its attached clients have exited.  Answer and outcome are the same
\* whether no connection is open, one is open to n, or one is open to
\* another name or as a monitor, and the request closes no connection.
C30_KillResultIndependent ==
    [][Kills =>
         LET n == lastKill'.session IN
         /\ lastKill'.status = "ok"
         /\ lastKill'.rc = KillRc(n)
         /\ sessions'[n] = NoSession
         /\ \A c \in AttachedTo(n) : tmuxAvail => child'[c].st = "exited"
         /\ \A c \in Conns \ AttachedTo(n) : child'[c] = child[c] /\ ptyOut'[c] = ptyOut[c]
         /\ pc' = pc /\ chan' = chan /\ fds' = fds]_vars

\* Witness: a kill of the session the open connection is attached to has
\* answered success; the session is gone, the tmux client of the connection
\* has exited, and its notice has been relayed to the browser.
C30_Witness ==
    /\ lastKill.status = "ok"
    /\ lastKill.rc = "0"
    /\ pc[1] = "running"
    /\ terminal[1].session_name = lastKill.session
    /\ child[1].st = "exited"
    /\ sessions[lastKill.session] = NoSession
    /\ HasChunk(wsOut[1], "tmuxexit", {})

\* read_loop of c sends a chunk on the websocket in this step.
Forwards(c) == wsOut'[c] # wsOut[c] /\ pc'[c] # "idle"

\* A chunk leaves the pty of c in this step, read by the relay of c.
ReadsChunk(c) ==
    LET p == PtyOf(c) IN
    /\ read_task[c] = "running"
    /\ p # 0
    /\ ptyOut[p] # <<>>
    /\ ptyOut'[p] = Tail(ptyOut[p])

\* The relay in itself: what is sent on the websocket of c is the chunk at
\* the head of the output of its pty, as read, appended after what was sent
\* before, and it leaves the pty in the same step; and a chunk read while
\* the websocket is open is sent.  This holds.
RelayInOrder ==
    [][\A c \in Conns :
         LET p == PtyOf(c) IN
         /\ Forwards(c) => /\ ReadsChunk(c)
                           /\ wsOut'[c] = Append(wsOut[c], Head(ptyOut[p]))
         /\ (ReadsChunk(c) /\ chan[c] = "open")
            => wsOut'[c] = Append(wsOut[c], Head(ptyOut[p]))]_vars

RelayInOrderWitness ==
    /\ pc[1] = "running" /\ pc[2] = "running"
    /\ chan[1] = "open"
    /\ Len(wsOut[1]) >= 1
    /\ wsOut[1][Len(wsOut[1])].kind = "echo"
    /\ ptyOut[1] = <<>>

\* C31: the relay forwards each chunk it reads once, as read and in order
\* (RelayInOrder), and it keeps forwarding: whenever the websocket of a
\* connection is open, its relay is running and output waits in its pty,
\* the event loop is free to run the relay.
C31_RelayKeepsForwarding ==
    /\ RelayInOrder
    /\ [](\A c \in Conns :
            (chan[c] = "open" /\ read_task[c] = "running" /\ ReadOutcome(c) = "data")
            => ~Blocked)

\* C32: when the child of a spawn runs the tmux command it has chosen, the
\* choice fits the state of tmux at that moment: it attaches only to a
\* session that exists and creates only a session that does not exist, so
\* the command succeeds and the child is attached.
C32_DecisionConsistent ==
    [][\A c \in Conns :
         Execs(c)
         => LET n   == terminal[c].session_name
                cmd == TmuxCommand(child[c].saw)
            IN /\ (cmd = "attach-session") <=> sessions[n].live
               /\ child'[c].st = "attached"]_vars

\* The step serves an HTTP request.
Served == lastReq'.tick # lastReq.tick

\* The htpasswd file is there and has a user.
FileHasUsers == htpasswd \in {"users", "unreadable"}

\* What a protected handler can change: processes, tmux sessions, stored state.
protectedState == <<bridgeVars, state_file>>

\* C33: while the htpasswd file exists and has users, a request for
\* /terminal, /state, /list-dirs or /kill-session is passed on to its handler
\* only if its cookie is a session id in the store; any other such request
\* is answered 401 and spawns nothing, kills nothing and stores nothing.
C33_ProtectedNeedsToken ==
    [][(Served /\ FileHasUsers /\ lastReq'.path \in ApiPaths)
       => IF verify_session(lastReq'.cookie)
          THEN lastReq'.outcome = "handler"
          ELSE lastReq'.outcome = "401" /\ protectedState' = protectedState]_vars

\* The same while the server can read the file.  This holds.
ProtectedNeedsTokenWhenReadable ==
    [][(Served /\ htpasswd = "users" /\ lastReq'.path \in ApiPaths)
       => IF verify_session(lastReq'.cookie)
          THEN lastReq'.outcome = "handler"
          ELSE lastReq'.outcome = "401" /\ protectedState' = protectedState]_vars

ProtectedNeedsTokenWitness ==
    /\ htpasswd = "users"
    /\ lastReq.path = "/terminal"
    /\ lastReq.outcome = "401"
    /\ lastReq.cookie \in Tokens
    /\ \E t \in Tokens : SESSIONS[t] \in Usernames
    /\ spawned = 1

\* Session id t was issued by a successful verify_htpasswd: its entry holds
\* the verified user name, where an unverified login stores 'anonymous'.
IssuedByVerification(t) == t # None /\ SESSIONS[t] \in Usernames

\* C34: while the htpasswd file exists and has users (and the server reads
\* it), a request is passed on to a protected handler only if its session
\* id was issued by a successful verification of a user name and password;
\* and a login that fails adds nothing to the store.
C34_TokenFromVerification ==
    [][/\ (Served /\ htpasswd = "users" /\ lastReq'.path \in ApiPaths
             /\ lastReq'.outcome = "handler")
          => IssuedByVerification(lastReq'.cookie)
       /\ (Served /\ lastReq'.path = "/login" /\ lastReq'.issued = None)
          => SESSIONS' = SESSIONS]_vars

\* C35: a logout request carrying session id t leaves t out of the store
\* and touches no other entry; carrying an id that is not in the store, or
\* no cookie, it changes nothing.  An id that is not in the store enters it
\* only by a login that issues it, and until then a request carrying it is
\* answered exactly as a request without a cookie, which is never passed on
\* to a handler while the server enforces the htpasswd file.
C35_LogoutRevokes ==
    [][/\ (Served /\ lastReq'.path = "/logout")
          => LET t == lastReq'.cookie IN
             /\ t # None => SESSIONS'[t] = None
             /\ \A x \in Tokens \ {t} : SESSIONS'[x] = SESSIONS[x]
             /\ ~verify_session(t) => SESSIONS' = SESSIONS
       /\ \A t \in Tokens :
            (SESSIONS[t] = None /\ SESSIONS'[t] # None)
            => (Served /\ lastReq'.path = "/login" /\ lastReq'.issued = t)
       /\ (Served /\ lastReq'.path # "/login" /\ ~verify_session(lastReq'.cookie))
          => /\ lastReq'.outcome = auth_middleware(lastReq'.path, None)
             /\ htpasswd_exists => lastReq'.outcome \in {"401", "login"}]_vars

\* Witness: the last request was a logout with t1 that reached
\* logout_handler; t1 is not in the store, the session t2 of alice still
\* is, and the server enforces the htpasswd file.
C35_Witness ==
    /\ lastReq.path = "/logout"
    /\ lastReq.cookie = "t1"
    /\ lastReq.outcome = "handler"
    /\ htpasswd = "users"
    /\ SESSIONS["t1"] = None
    /\ SESSIONS["t2"] = "alice"

\* closeTab removes tab n in this step.
ClosesTab(n) == tabs[n] # NoTab /\ tabs'[n] = NoTab

\* C36: closing a tab that owns a WebSocket (a terminal tab or a GPU-stats
\* tab) closes that WebSocket, whose end is what makes the server tear the
\* session of the tab down, and closing a terminal tab also asks
\* /kill-session for the session name of the tab.
C36_CloseTabClosesChannel ==
    [][\A n \in TabNumbers : ClosesTab(n) =>
          /\ sockets[n] \in {"CONNECTING", "OPEN"} => sockets'[n] \in {"CLOSING", "CLOSED"}
          /\ tabs[n].type = "terminal" => tabs[n].sessionName \in fetches']_vars

\* C37: on the loaded page, after init and after any sequence of tabs
\* created, activated and closed, the Map of tabs is not empty and
\* activeTabId is the id of a tab in the Map; closing the only tab creates a
\* new terminal tab.
C37_ActiveTabInTabSet ==
    /\ [](phase = "ready" => Keys(Page) # {} /\ activeTabId \in Keys(Page))
    /\ [][\A n \in TabNumbers : (ClosesTab(n) /\ Keys(Page) = {n}) =>
             /\ tabCounter' = tabCounter + 1
             /\ tabs'[tabCounter'].type = "terminal"
             /\ activeTabId' = tabCounter']_vars

\* Every tab but the newest has been closed, and the terminal tab that is
\* left is the active one.
C37_Witness ==
    /\ phase = "ready"
    /\ tabCounter >= 2
    /\ Keys(Page) = {tabCounter}
    /\ tabs[tabCounter].type = "terminal"
    /\ activeTabId = tabCounter
    /\ fetches # {}
====
